---- MODULE Spec2Model ----
(***************************************************************************)
(* Tunnel mesh orchestration of flexiManage                                *)
(* (backend/deviceLogic/tunnels.js): tunnel number allocation, tunnel      *)
(* records, job dispatch to the two devices of a tunnel, and the           *)
(* completion / error callbacks, as a state machine over the tunnels       *)
(* collection, the tunnelids collection and the device job queue.  A job   *)
(* of the queue is kept with the operation that submitted it (jobA, jobB). *)
(*                                                                         *)
(* Every await / .then of the source is one step: a store operation        *)
(* (find, findOneAndUpdate) or a job submission is atomic, and the steps   *)
(* of concurrently running operations interleave freely.                   *)
(***************************************************************************)
EXTENDS Integers, Sequences, FiniteSets, TLC

VARIABLES
  tunnels,   \* tunnels collection: sequence of records, the index is _id
  counter,   \* tunnelids collection: org -> nextAvailID, NoDoc when absent
  calls,     \* applyTunnelAdd calls: the state of the promise they return
  tasks,     \* getTunnelPromise instances, each with the state of its two jobs
  dels,      \* oneTunnelDel instances (applyTunnelDel or errorTunnelAdd), each
             \* with the state of its two jobs
  budget,    \* the number of operations one behaviour may start (see Load)
  derived    \* an evaluation of the functions that derive tunnel parameters
             \* and job tasks: the arguments and, once computed, the result;
             \* or the last callback called with a payload of its own: the
             \* handler, the payload and what the handler did; or the
             \* applications of the devices and the deploy call under way

vars == <<tunnels, counter, calls, tasks, dels, budget, derived>>

(***************************************************************************)
(* Bounds of the model                                                     *)
(***************************************************************************)
MaxOps == 2          \* operations started in one behaviour (see Load)
MaxRollbacks == 1    \* rollbacks started in one behaviour (see Rollbacks)
MaxMeshOps == 3      \* operations one applyTunnelAdd call of SpecMesh starts
MaxPayloadOps == 1   \* operations started in one behaviour of SpecPayload
MaxCrossOps == 2     \* operations one applyTunnelAdd call of SpecCross starts
MaxErrOps == 2       \* operations started in one behaviour of SpecErr
MaxAppOps == 1       \* deploy calls made in one behaviour of SpecApp
MaxReissueOps == 3   \* operations started in one behaviour of SpecReissue
MaxGenNum == 260     \* tunnel numbers 0..MaxGenNum (and 14999) given to generateTunnelParams
Headroom == 1        \* numbers left in the counter of a nearly full organization

(***************************************************************************)
(* Program constants                                                       *)
(***************************************************************************)
MaxTunnelID == 15000 \* nextAvailID: { $gte: 0, $lt: 15000 }
DupKeyCode == 11000  \* err.code === 11000

NoDoc == -1          \* the organization has no tunnelids document
NoNum == -1          \* no tunnel number obtained (yet)

Orgs == {"o1", "o2"}
Devices == {"d1", "d2", "d3", "d4"}

(***************************************************************************)
(* Device documents (read only for this code).  interfaces is the ordered  *)
(* interface list of the device document.                                  *)
(***************************************************************************)
Intf(id, assigned, type, ip, pub) ==
  [_id |-> id, isAssigned |-> assigned, type |-> type, IPv4 |-> ip, PublicIP |-> pub]

DeviceInterfaces(d) ==
  CASE d = "d1" -> << Intf("i1w", TRUE, "WAN", "ip1", ""),
                      Intf("i1l", TRUE, "LAN", "ip1l", "") >>
    [] d = "d2" -> << Intf("i2u", FALSE, "WAN", "ip2u", ""),
                      Intf("i2w", TRUE, "WAN", "ip2", "pub2") >>
    [] d = "d3" -> << Intf("i3w", TRUE, "WAN", "ip3", "") >>
    [] d = "d4" -> << Intf("i4a", TRUE, "WAN", "ip4a", ""),
                      Intf("i4l", TRUE, "LAN", "ip4l", ""),
                      Intf("i4b", TRUE, "WAN", "ip4b", "") >>

\* deviceA.interfaces.filter(intf => intf.isAssigned === true && intf.type === 'WAN')
WanIntfs(d) ==
  SelectSeq(DeviceInterfaces(d), LAMBDA intf : intf.isAssigned = TRUE /\ intf.type = "WAN")

\* versions.router of a device document is an input of the call, given as a
\* map from device to router version
routerVersionsCompatible(verA, verB) == verA = verB

(***************************************************************************)
(* Sequence helpers                                                        *)
(***************************************************************************)
RECURSIVE Flatten(_)
Flatten(ss) == IF ss = << >> THEN << >> ELSE Head(ss) \o Flatten(Tail(ss))

(***************************************************************************)
(* Records                                                                 *)
(***************************************************************************)
Tunnel(org, num, active, aconf, bconf, dA, iA, dB, iB) ==
  [org |-> org, num |-> num, isActive |-> active,
   deviceAconf |-> aconf, deviceBconf |-> bconf,
   deviceA |-> dA, interfaceA |-> iA, deviceB |-> dB, interfaceB |-> iB]

\* a getTunnelPromise instance; try: the attempt of the counter update it is
\* at, err: the code of the last error of the counter update, 0 when none;
\* jobA, jobB: the job submitted for each side, "none", "queued", "completed"
\* or "failed"; tasksA, tasksB: the tasks handed to the queue with the job
\* of each side, accepted or refused, << >> when none was handed over
Task(call, org, dA, iA, dB, iB) ==
  [pc |-> "find", call |-> call, org |-> org,
   deviceA |-> dA, interfaceA |-> iA, deviceB |-> dB, interfaceB |-> iB,
   num |-> NoNum, how |-> "none", try |-> 1, err |-> 0, jobA |-> "none", jobB |-> "none",
   tasksA |-> << >>, tasksB |-> << >>]

\* a oneTunnelDel instance and the call that made it; task, side: the add job
\* whose error callback called it (0, "" when applyTunnelDel did); context,
\* selected: the devices and data.tunnels arguments of applyTunnelDel
Del(kind, org, tid, task, side) ==
  [pc |-> "find", kind |-> kind, org |-> org, tunnelID |-> tid, task |-> task, side |-> side,
   context |-> TRUE, selected |-> {tid},
   num |-> NoNum, deviceA |-> "", interfaceA |-> "", deviceB |-> "", interfaceB |-> "",
   jobA |-> "none", jobB |-> "none", tasksA |-> << >>, tasksB |-> << >>]

(***************************************************************************)
(* Initial stores.  Each is a store the program leaves behind when it is   *)
(* idle: no store at all; one deleted tunnel, next to a deleted tunnel of  *)
(* another organization; and an organization whose counter is Headroom     *)
(* numbers short of its capacity, with the tunnel minted last confirmed on *)
(* both sides (its other tunnels connect devices outside Devices, stay     *)
(* active and are not represented).                                        *)
(***************************************************************************)
NoCounters == [o \in Orgs |-> NoDoc]

InitStores ==
  { [tunnels |-> << >>, counter |-> NoCounters],
    [tunnels |-> << Tunnel("o2", 1, FALSE, FALSE, FALSE, "d1", "i1w", "d2", "i2w"),
                    Tunnel("o1", 1, FALSE, FALSE, FALSE, "d1", "i1w", "d3", "i3w") >>,
     counter |-> [o \in Orgs |-> 1]],
    [tunnels |-> << Tunnel("o1", MaxTunnelID - Headroom, TRUE, TRUE, TRUE,
                           "d1", "i1w", "d2", "i2w") >>,
     counter |-> [NoCounters EXCEPT !["o1"] = MaxTunnelID - Headroom]] }

\* no evaluation in progress
NoDerived == [op |-> "none"]

Idle ==
  /\ \E s \in InitStores : tunnels = s.tunnels /\ counter = s.counter
  /\ calls = << >>
  /\ tasks = << >>
  /\ dels = << >>
  /\ derived = NoDerived

Init == Idle /\ budget = MaxOps

(***************************************************************************)
(* applyTunnelAdd: the synchronous part of the call.  The device pairs are *)
(* enumerated in the order of the two nested loops; a getTunnelPromise is  *)
(* started (its first query is issued) for every WAN interface pair of a   *)
(* device pair as soon as the loop reaches it, and a version mismatch      *)
(* throws out of the loop.                                                 *)
(***************************************************************************)
AddInput(ds, sel, ver) == [devices |-> ds, selected |-> sel, versions |-> ver, org |-> "o1"]

\* two devices in either order, three devices of which the last has another
\* router version than the first two, and a selection that matches one of
\* the two devices supplied
AddInputs ==
  { AddInput(<<"d1", "d2">>, Devices, [d \in Devices |-> 1]),
    AddInput(<<"d2", "d1">>, Devices, [d \in Devices |-> 1]),
    AddInput(<<"d3", "d2", "d1">>, Devices, [d \in Devices |-> IF d = "d1" THEN 2 ELSE 1]),
    AddInput(<<"d1", "d2">>, {"d2"}, [d \in Devices |-> 1]) }

\* the devices supplied, whatever the selection
OpDevicesUnfiltered(devices, selected) == devices

\* devices.filter(device => selectedDevices.hasOwnProperty(device._id))
OpDevices(devices, selected) == SelectSeq(devices, LAMBDA d : d \in selected)

\* only the pairs of neighbours in the list
AllPairsAdjacent(n) == { p \in (1..n) \X (1..n) : p[2] = p[1] + 1 }

AllPairs(n) == { p \in (1..n) \X (1..n) : p[1] < p[2] }

PairRank(p, n) ==
  Cardinality({ q \in AllPairs(n) : q[1] < p[1] \/ (q[1] = p[1] /\ q[2] < p[2]) }) + 1

\* the (idxA, idxB) pairs in the order the nested for loops visit them
PairSeq(n) ==
  [k \in 1..Cardinality(AllPairs(n)) |-> CHOOSE p \in AllPairs(n) : PairRank(p, n) = k]

\* deviceAIntfs.forEach(wanIfcA => deviceBIntfs.forEach(wanIfcB => dbTasks.push(...)))
PairTasks(call, org, dA, dB) ==
  LET WA == WanIntfs(dA)
      WB == WanIntfs(dB)
  IN [m \in 1..(Len(WA) * Len(WB)) |->
        Task(call, org, dA, WA[((m - 1) \div Len(WB)) + 1]._id,
                        dB, WB[((m - 1) % Len(WB)) + 1]._id)]

\* index of the first pair with incompatible router versions, 0 if none
FirstMismatch(op, ver) ==
  LET ps == PairSeq(Len(op))
      bad == { k \in DOMAIN ps :
                 ~routerVersionsCompatible(ver[op[ps[k][1]]], ver[op[ps[k][2]]]) }
  IN IF bad = {} THEN 0 ELSE CHOOSE k \in bad : \A m \in bad : k <= m

\* the getTunnelPromise instances started before the loop ends or throws
StartedTasks(call, org, op, ver) ==
  LET ps == PairSeq(Len(op))
      fm == FirstMismatch(op, ver)
      n == IF fm = 0 THEN Len(ps) ELSE fm - 1
  IN Flatten([k \in 1..n |-> PairTasks(call, org, op[ps[k][1]], op[ps[k][2]])])

\* Promise.all(dbTasks): rejected with the first rejection, fulfilled once
\* every promise is fulfilled; a settled call stays as it is
SettleCalls(cs, ts) ==
  [c \in DOMAIN cs |->
     IF cs[c].status # "pending" THEN cs[c]
     ELSE LET mine == { t \in DOMAIN ts : ts[t].call = c }
          IN IF \E t \in mine : ts[t].pc = "rejected"
               THEN [cs[c] EXCEPT !.status = "rejected", !.reason = "task"]
             ELSE IF \A t \in mine : ts[t].pc \in {"resolved", "skipped"}
               THEN [cs[c] EXCEPT !.status = "fulfilled"]
             ELSE cs[c]]

\* the rollbacks started so far: the oneTunnelDel instances of errorTunnelAdd
Rollbacks == Cardinality({ d \in DOMAIN dels : dels[d].kind = "error" })

\* the operations callers started so far: the getTunnelPromise instances, the
\* applyTunnelAdd calls that started none, and the applyTunnelDel calls
Load ==
  Len(tasks) + Cardinality({ d \in DOMAIN dels : dels[d].kind = "api" })
             + Cardinality({ c \in DOMAIN calls : calls[c].started = 0 })

\* the promise of an applyTunnelAdd call, with the arguments of the call
Call(in, status, reason, started) ==
  [status |-> status, reason |-> reason, org |-> in.org, started |-> started,
   devices |-> in.devices, selected |-> in.selected]

ApplyTunnelAdd(in) ==
  /\ Load < budget
  /\ LET op == OpDevices(in.devices, in.selected)
         c == Len(calls) + 1
         new == IF Len(op) >= 2 THEN StartedTasks(c, in.org, op, in.versions) ELSE << >>
         call == IF Len(op) < 2 THEN Call(in, "rejected", "count", 0)
                 ELSE IF FirstMismatch(op, in.versions) # 0
                   THEN Call(in, "rejected", "version", Len(new))
                 ELSE Call(in, "pending", "", Len(new))
     IN /\ Load + Len(new) <= budget
        /\ tasks' = tasks \o new
        /\ calls' = SettleCalls(Append(calls, call), tasks')
  /\ UNCHANGED <<tunnels, counter, dels, budget, derived>>

(***************************************************************************)
(* getTunnelPromise                                                        *)
(***************************************************************************)
\* the query for the device order of the call only
TunnelFoundSameOrder(org, dA, dB) ==
  { i \in DOMAIN tunnels :
      /\ tunnels[i].deviceA = dA /\ tunnels[i].deviceB = dB
      /\ tunnels[i].isActive = TRUE
      /\ tunnels[i].org = org }

\* tunnelsModel.find({ $or: [{deviceA, deviceB}, {deviceB: deviceA, deviceA: deviceB}],
\*                     isActive: true, org })
TunnelFound(org, dA, dB) ==
  { i \in DOMAIN tunnels :
      /\ \/ tunnels[i].deviceA = dA /\ tunnels[i].deviceB = dB
         \/ tunnels[i].deviceB = dA /\ tunnels[i].deviceA = dB
      /\ tunnels[i].isActive = TRUE
      /\ tunnels[i].org = org }

TunnelFind(t) ==
  /\ tasks[t].pc = "find"
  /\ tasks' = [tasks EXCEPT ![t].pc =
                 IF TunnelFound(tasks[t].org, tasks[t].deviceA, tasks[t].deviceB) = {}
                   THEN "claim" ELSE "skipped"]
  /\ calls' = SettleCalls(calls, tasks')
  /\ UNCHANGED <<tunnels, counter, dels, budget, derived>>

\* the query without the organization
DeletedAnyOrg(org) == { i \in DOMAIN tunnels : tunnels[i].isActive = FALSE }

\* the query of findOneAndUpdate({ isActive: false, org }, { isActive: true })
Deleted(org) ==
  { i \in DOMAIN tunnels : tunnels[i].isActive = FALSE /\ tunnels[i].org = org }

\* a claim that reads the record and leaves it as it is
ClaimNoUpdate(rec) == rec

\* the update of that findOneAndUpdate, applied to the record it matched
ClaimUpdate(rec) == [rec EXCEPT !.isActive = TRUE]

TunnelClaim(t) ==
  /\ tasks[t].pc = "claim"
  /\ IF Deleted(tasks[t].org) # {}
       THEN \E i \in Deleted(tasks[t].org) :
              /\ tunnels' = [tunnels EXCEPT ![i] = ClaimUpdate(tunnels[i])]
              /\ tasks' = [tasks EXCEPT ![t].pc = "write", ![t].num = tunnels[i].num,
                                        ![t].how = "claimed"]
       ELSE /\ tasks' = [tasks EXCEPT ![t].pc = "mint"]
            /\ UNCHANGED tunnels
  /\ UNCHANGED <<counter, calls, dels, budget, derived>>

\* the query with $lte in the place of $lt
CounterMatchesInclusive(org) ==
  counter[org] # NoDoc /\ counter[org] >= 0 /\ counter[org] <= MaxTunnelID

\* the query { org, nextAvailID: { $gte: 0, $lt: 15000 } } on the tunnelids document
CounterMatches(org) == counter[org] # NoDoc /\ counter[org] >= 0 /\ counter[org] < MaxTunnelID

\* an update that leaves nextAvailID as it is
CounterIncStuck(id) == id

\* { $inc: { nextAvailID: 1 } }
CounterInc(id) == id + 1

\* the document before the update, as without { new: true }
ReturnedOld(before, after) == before

\* { new: true }: findOneAndUpdate returns the document after the update
Returned(before, after) == after

\* an inserted document whose nextAvailID the $inc leaves at 0
CounterInsertedZero == CounterInc(-1)

\* the document an upsert inserts: { org } from the query, then the $inc
CounterInserted == CounterInc(0)

\* findOneAndUpdate on tunnelids, a document matches: it is updated and returned
CounterUpdate(t) ==
  /\ tasks[t].pc = "mint"
  /\ IF CounterMatches(tasks[t].org)
       THEN /\ counter' = [counter EXCEPT ![tasks[t].org] = CounterInc(@)]
            /\ tasks' = [tasks EXCEPT ![t].pc = "write", ![t].how = "minted",
                                      ![t].num = Returned(counter[tasks[t].org],
                                                          counter'[tasks[t].org])]
       ELSE /\ tasks' = [tasks EXCEPT ![t].pc = "insert"]
            /\ UNCHANGED counter
  /\ UNCHANGED <<tunnels, calls, dels, budget, derived>>

\* the error of the upsert's insert: the unique index on org refuses a second
\* document of the organization with a duplicate key error, 0 is no error
UpsertError(org) == IF counter[org] = NoDoc THEN 0 ELSE DupKeyCode

\* a second try after any error of the first
RetryOnAnyError(code, try) == try = 1

\* if (err.code === 11000) in the error handler of the first try; the error
\* handler of the second try has no such branch
RetryOn(code, try) == code = DupKeyCode /\ try = 1

\* the error handlers of the counter update: the update is tried a second
\* time, or the getTunnelPromise is rejected
CounterFailed(tk, code) ==
  [tk EXCEPT !.pc = IF RetryOn(code, tk.try) THEN "mint" ELSE "rejected",
             !.try = IF RetryOn(code, tk.try) THEN 2 ELSE @,
             !.err = code]

\* findOneAndUpdate on tunnelids, no document matched: the upsert inserts one,
\* or fails with the duplicate key error
CounterUpsert(t) ==
  /\ tasks[t].pc = "insert"
  /\ IF UpsertError(tasks[t].org) = 0
       THEN /\ counter' = [counter EXCEPT ![tasks[t].org] = CounterInserted]
            /\ tasks' = [tasks EXCEPT ![t].pc = "write", ![t].how = "minted",
                                      ![t].num = Returned(0, counter'[tasks[t].org])]
       ELSE /\ tasks' = [tasks EXCEPT ![t] = CounterFailed(@, UpsertError(tasks[t].org))]
            /\ UNCHANGED counter
  /\ calls' = SettleCalls(calls, tasks')
  /\ UNCHANGED <<tunnels, dels, budget, derived>>

\* the codes of errors of the store other than the duplicate key error: 89 is
\* a network timeout
OtherErrors == {89}

\* findOneAndUpdate on tunnelids fails with another error than duplicate key
CounterError(t, code) ==
  /\ tasks[t].pc = "mint"
  /\ tasks' = [tasks EXCEPT ![t] = CounterFailed(@, code)]
  /\ calls' = SettleCalls(calls, tasks')
  /\ UNCHANGED <<tunnels, counter, dels, budget, derived>>

(***************************************************************************)
(* Tunnel parameters and job tasks.  An IPv4 address built from numbers is *)
(* the tuple of its four numbers, a MAC address the tuple of its six       *)
(* octets, each octet the two hexadecimal digits the code prints.          *)
(***************************************************************************)
\* the last hexadecimal digit only, after a 0
d2hLastDigit(d) == << 0, d % 16 >>

\* ('00' + (+d).toString(16)).substr(-2): the last two hexadecimal digits
d2h(d) == << (d \div 16) % 16, d % 16 >>

\* the parameters with 128 numbers to a value of l
generateTunnelParamsWide(tunnelNum) ==
  LET h == ((tunnelNum % 128) + 1) * 2
      l == tunnelNum \div 128
  IN [ip1 |-> <<10, 100, l, h>>,
      ip2 |-> <<10, 100, l, h + 1>>,
      mac1 |-> << d2h(2), d2h(0), d2h(39), d2h(253), d2h(l), d2h(h) >>,
      mac2 |-> << d2h(2), d2h(0), d2h(39), d2h(253), d2h(l), d2h(h + 1) >>,
      sa1 |-> l * 256 + h,
      sa2 |-> l * 256 + h + 1]

generateTunnelParams(tunnelNum) ==
  LET h == ((tunnelNum % 127) + 1) * 2
      l == tunnelNum \div 127
  IN [ip1 |-> <<10, 100, l, h>>,
      ip2 |-> <<10, 100, l, h + 1>>,
      mac1 |-> << d2h(2), d2h(0), d2h(39), d2h(253), d2h(l), d2h(h) >>,
      mac2 |-> << d2h(2), d2h(0), d2h(39), d2h(253), d2h(l), d2h(h + 1) >>,
      sa1 |-> l * 256 + h,
      sa2 |-> l * 256 + h + 1]

\* the four keys are random numbers: each is kept as its name
generateRandomKeys == [key1 |-> "key1", key2 |-> "key2", key3 |-> "key3", key4 |-> "key4"]

\* (peer.PublicIP === '') ? peer.IPv4 : peer.PublicIP
DstOf(peer) == IF peer.PublicIP = "" THEN peer.IPv4 ELSE peer.PublicIP

\* the security associations of device B with those of device A exchanged
\* whole, keys included
paramsIpsecDeviceBExchanged(paramsSaAB, paramsSaBA, tunnelParams) ==
  [local_sa |-> paramsSaBA, remote_sa |-> paramsSaAB]

\* the ipsec block of device B: the security associations of device A in the
\* same places, each with the SPI of the other
paramsIpsecDeviceB(paramsSaAB, paramsSaBA, tunnelParams) ==
  [local_sa |-> [paramsSaAB EXCEPT !.spi = tunnelParams.sa2],
   remote_sa |-> [paramsSaBA EXCEPT !.spi = tunnelParams.sa1]]

\* the add tasks with the private address of the peer as dst on both sides
prepareTunnelAddJobPrivateDst(tunnelnum, deviceAIntf, deviceBIntf) ==
  LET tunnelParams == generateTunnelParams(tunnelnum)
      plain(src, dst, ip, mac) ==
        [src |-> src, dst |-> dst, tunnel_id |-> tunnelnum,
         ipsec |-> [local_sa |-> [spi |-> tunnelParams.sa1], remote_sa |-> [spi |-> tunnelParams.sa2]],
         loopback_iface |-> [addr |-> [ip |-> ip, len |-> 31], mac |-> mac,
                             mtu |-> 1350, routing |-> "ospf"]]
  IN << << [entity |-> "agent", message |-> "add-tunnel",
            params |-> plain(deviceAIntf.IPv4, deviceBIntf.IPv4,
                             tunnelParams.ip1, tunnelParams.mac1)] >>,
        << [entity |-> "agent", message |-> "add-tunnel",
            params |-> plain(deviceBIntf.IPv4, deviceAIntf.IPv4,
                             tunnelParams.ip2, tunnelParams.mac2)] >> >>

prepareTunnelAddJob(tunnelnum, deviceAIntf, deviceBIntf) ==
  LET tunnelParams == generateTunnelParams(tunnelnum)
      tunnelKeys == generateRandomKeys
      paramsSaAB == [spi |-> tunnelParams.sa1,
                     crypto_key |-> tunnelKeys.key1, integr_key |-> tunnelKeys.key2,
                     crypto_alg |-> "aes-cbc-128", integr_alg |-> "sha-256-128"]
      paramsSaBA == [spi |-> tunnelParams.sa2,
                     crypto_key |-> tunnelKeys.key3, integr_key |-> tunnelKeys.key4,
                     crypto_alg |-> "aes-cbc-128", integr_alg |-> "sha-256-128"]
      paramsDeviceA ==
        [src |-> deviceAIntf.IPv4, dst |-> DstOf(deviceBIntf), tunnel_id |-> tunnelnum,
         ipsec |-> [local_sa |-> paramsSaAB, remote_sa |-> paramsSaBA],
         loopback_iface |-> [addr |-> [ip |-> tunnelParams.ip1, len |-> 31],
                             mac |-> tunnelParams.mac1, mtu |-> 1350, routing |-> "ospf"]]
      paramsDeviceB ==
        [src |-> deviceBIntf.IPv4, dst |-> DstOf(deviceAIntf), tunnel_id |-> tunnelnum,
         ipsec |-> paramsIpsecDeviceB(paramsSaAB, paramsSaBA, tunnelParams),
         loopback_iface |-> [addr |-> [ip |-> tunnelParams.ip2, len |-> 31],
                             mac |-> tunnelParams.mac2, mtu |-> 1350, routing |-> "ospf"]]
  IN << << [entity |-> "agent", message |-> "add-tunnel", params |-> paramsDeviceA] >>,
        << [entity |-> "agent", message |-> "add-tunnel", params |-> paramsDeviceB] >> >>

\* the remove tasks with the loopback addresses of the two sides exchanged
prepareTunnelRemoveJobSwapped(tunnelnum, deviceAIntf, deviceBIntf) ==
  LET tunnelParams == generateTunnelParams(tunnelnum)
  IN << << [entity |-> "agent", message |-> "remove-tunnel",
            params |-> [src |-> deviceAIntf.IPv4, dst |-> DstOf(deviceBIntf),
                        tunnel_id |-> tunnelnum,
                        loopback_iface |-> [addr |-> [ip |-> tunnelParams.ip2, len |-> 31],
                                            mac |-> tunnelParams.mac2]]] >>,
        << [entity |-> "agent", message |-> "remove-tunnel",
            params |-> [src |-> deviceBIntf.IPv4, dst |-> DstOf(deviceAIntf),
                        tunnel_id |-> tunnelnum,
                        loopback_iface |-> [addr |-> [ip |-> tunnelParams.ip1, len |-> 31],
                                            mac |-> tunnelParams.mac1]]] >> >>

prepareTunnelRemoveJob(tunnelnum, deviceAIntf, deviceBIntf) ==
  LET tunnelParams == generateTunnelParams(tunnelnum)
      paramsDeviceA ==
        [src |-> deviceAIntf.IPv4, dst |-> DstOf(deviceBIntf), tunnel_id |-> tunnelnum,
         loopback_iface |-> [addr |-> [ip |-> tunnelParams.ip1, len |-> 31],
                             mac |-> tunnelParams.mac1]]
      paramsDeviceB ==
        [src |-> deviceBIntf.IPv4, dst |-> DstOf(deviceAIntf), tunnel_id |-> tunnelnum,
         loopback_iface |-> [addr |-> [ip |-> tunnelParams.ip2, len |-> 31],
                             mac |-> tunnelParams.mac2]]
  IN << << [entity |-> "agent", message |-> "remove-tunnel", params |-> paramsDeviceA] >>,
        << [entity |-> "agent", message |-> "remove-tunnel", params |-> paramsDeviceB] >> >>

\* the interface of device d with this _id
IntfOf(d, id) ==
  LET ifs == DeviceInterfaces(d)
  IN ifs[CHOOSE k \in DOMAIN ifs : ifs[k]._id = id]

(***************************************************************************)
(* addTunnel and queueTunnel                                               *)
(***************************************************************************)
\* the query { org, num: tunnelnum } of addTunnel's findOneAndUpdate
NumMatches(org, num) ==
  { i \in DOMAIN tunnels : tunnels[i].org = org /\ tunnels[i].num = num }

\* the update of addTunnel's findOneAndUpdate for task tk, applied to rec
AddUpdate(rec, tk) ==
  [rec EXCEPT !.isActive = TRUE, !.deviceAconf = FALSE, !.deviceBconf = FALSE,
              !.deviceA = tk.deviceA, !.interfaceA = tk.interfaceA,
              !.deviceB = tk.deviceB, !.interfaceB = tk.interfaceB]

\* a write that is given up once the call of the operation has been rejected
TunnelWriteUnlessFailed(t) ==
  LET tk == tasks[t]
      blank == Tunnel(tk.org, tk.num, FALSE, FALSE, FALSE, "", "", "", "")
  IN /\ tk.pc = "write"
     /\ calls[tk.call].status # "rejected"
     /\ IF NumMatches(tk.org, tk.num) # {}
          THEN \E i \in NumMatches(tk.org, tk.num) :
                 tunnels' = [tunnels EXCEPT ![i] = AddUpdate(tunnels[i], tk)]
          ELSE tunnels' = Append(tunnels, AddUpdate(blank, tk))
     /\ tasks' = [tasks EXCEPT ![t].pc = "queue"]
     /\ UNCHANGED <<counter, calls, dels, budget, derived>>

\* { upsert: true }: the matched record is updated, else one is inserted
TunnelWrite(t) ==
  LET tk == tasks[t]
      blank == Tunnel(tk.org, tk.num, FALSE, FALSE, FALSE, "", "", "", "")
  IN /\ tk.pc = "write"
     /\ IF NumMatches(tk.org, tk.num) # {}
          THEN \E i \in NumMatches(tk.org, tk.num) :
                 tunnels' = [tunnels EXCEPT ![i] = AddUpdate(tunnels[i], tk)]
          ELSE tunnels' = Append(tunnels, AddUpdate(blank, tk))
     /\ tasks' = [tasks EXCEPT ![t].pc = "queue"]
     /\ UNCHANGED <<counter, calls, dels, budget, derived>>

\* addTunnel: the tasks prepareTunnelAddJob builds for the tunnel of task tk
AddTasks(tk) ==
  prepareTunnelAddJob(tk.num, IntfOf(tk.deviceA, tk.interfaceA), IntfOf(tk.deviceB, tk.interfaceB))

\* the two jobs submitted without waiting for addTunnel's write
QueueTunnelEarly(t) ==
  /\ tasks[t].pc \in {"write", "queue"}
  /\ tasks' = [tasks EXCEPT ![t].pc = "resolved", ![t].jobA = "queued", ![t].jobB = "queued",
                            ![t].tasksA = AddTasks(tasks[t])[1],
                            ![t].tasksB = AddTasks(tasks[t])[2]]
  /\ calls' = SettleCalls(calls, tasks')
  /\ UNCHANGED <<tunnels, counter, dels, budget, derived>>

\* queueTunnel(true, ...): deviceQueues.addJob for device A, then for device
\* B, both accepted
QueueTunnel(t) ==
  /\ tasks[t].pc = "queue"
  /\ tasks' = [tasks EXCEPT ![t].pc = "resolved", ![t].jobA = "queued", ![t].jobB = "queued",
                            ![t].tasksA = AddTasks(tasks[t])[1],
                            ![t].tasksB = AddTasks(tasks[t])[2]]
  /\ calls' = SettleCalls(calls, tasks')
  /\ UNCHANGED <<tunnels, counter, dels, budget, derived>>

\* a refusal that takes the tunnel record back: the record is made inactive
QueueRefusedRollsBack(t, refusedA) ==
  /\ tasks[t].pc = "queue"
  /\ tasks' = [tasks EXCEPT ![t].pc = "rejected",
                            ![t].jobA = IF refusedA THEN "none" ELSE "queued",
                            ![t].tasksA = AddTasks(tasks[t])[1],
                            ![t].tasksB = IF refusedA THEN << >> ELSE AddTasks(tasks[t])[2]]
  /\ tunnels' = [i \in DOMAIN tunnels |->
                   IF i \in NumMatches(tasks[t].org, tasks[t].num)
                     THEN [tunnels[i] EXCEPT !.isActive = FALSE] ELSE tunnels[i]]
  /\ calls' = SettleCalls(calls, tasks')
  /\ UNCHANGED <<counter, dels, budget, derived>>

\* the queue refuses the job of device A (refusedA), or accepts it and refuses
\* the job of device B: addJob throws, queueTunnel and addTunnel throw, and
\* the .catch of the chain rejects the getTunnelPromise; after the second try
\* of the counter update no .catch follows the handler that awaits addTunnel,
\* and the getTunnelPromise is never settled (pc "hung")
QueueRefused(t, refusedA) ==
  /\ tasks[t].pc = "queue"
  /\ tasks' = [tasks EXCEPT ![t].pc = IF tasks[t].try = 2 THEN "hung" ELSE "rejected",
                            ![t].jobA = IF refusedA THEN "none" ELSE "queued",
                            ![t].tasksA = AddTasks(tasks[t])[1],
                            ![t].tasksB = IF refusedA THEN << >> ELSE AddTasks(tasks[t])[2]]
  /\ calls' = SettleCalls(calls, tasks')
  /\ UNCHANGED <<tunnels, counter, dels, budget, derived>>

(***************************************************************************)
(* applyTunnelDel, oneTunnelDel and delTunnel                              *)
(***************************************************************************)
\* the arguments of applyTunnelDel: devices (given or not) and the ids that
\* are the keys of data.tunnels
DelInput(devices, ids) == [devices |-> devices, tunnels |-> ids, org |-> "o1"]

\* one tunnel of the store selected, with devices; one tunnel selected without
\* devices; two tunnels selected
DelInputs ==
  { DelInput(TRUE, {tid}) : tid \in DOMAIN tunnels }
    \cup { DelInput(FALSE, {1}), DelInput(TRUE, {1, 2}) }

\* applyTunnelDel: with devices and one selected tunnel oneTunnelDel is called
\* and issues its query; otherwise the call returns (pc "returned")
ApplyTunnelDel(in) ==
  /\ Load < budget
  /\ IF in.devices /\ Cardinality(in.tunnels) = 1
       THEN dels' = Append(dels, Del("api", in.org, CHOOSE tid \in in.tunnels : TRUE, 0, ""))
       ELSE dels' = Append(dels, [Del("api", in.org, 0, 0, "") EXCEPT
                                    !.pc = "returned", !.context = in.devices,
                                    !.selected = in.tunnels])
  /\ UNCHANGED <<tunnels, counter, calls, tasks, budget, derived>>

\* tunnelsModel.findOne({ _id: tunnelID, isActive: true, org })
DelMatches(org, tid) ==
  { i \in DOMAIN tunnels : i = tid /\ tunnels[i].isActive = TRUE /\ tunnels[i].org = org }

\* the query's answer; using a null answer throws (pc "failed")
DelFind(d) ==
  /\ dels[d].pc = "find"
  /\ IF DelMatches(dels[d].org, dels[d].tunnelID) # {}
       THEN LET rec == tunnels[dels[d].tunnelID]
            IN dels' = [dels EXCEPT ![d].pc = "queue", ![d].num = rec.num,
                                    ![d].deviceA = rec.deviceA, ![d].interfaceA = rec.interfaceA,
                                    ![d].deviceB = rec.deviceB, ![d].interfaceB = rec.interfaceB]
       ELSE dels' = [dels EXCEPT ![d].pc = "failed"]
  /\ UNCHANGED <<tunnels, counter, calls, tasks, budget, derived>>

\* delTunnel: the tasks prepareTunnelRemoveJob builds for the tunnel dl read
RemoveTasks(dl) ==
  prepareTunnelRemoveJob(dl.num, IntfOf(dl.deviceA, dl.interfaceA), IntfOf(dl.deviceB, dl.interfaceB))

\* remove jobs only for the sides that confirmed the tunnel
DelTunnelConfirmed(d) ==
  /\ dels[d].pc = "queue"
  /\ dels' = [dels EXCEPT
               ![d].pc = "write",
               ![d].jobA = IF tunnels[dels[d].tunnelID].deviceAconf THEN "queued" ELSE "none",
               ![d].jobB = IF tunnels[dels[d].tunnelID].deviceBconf THEN "queued" ELSE "none"]
  /\ UNCHANGED <<tunnels, counter, calls, tasks, budget, derived>>

\* delTunnel: queueTunnel(false, ...), both jobs accepted
DelTunnel(d) ==
  /\ dels[d].pc = "queue"
  /\ dels' = [dels EXCEPT ![d].pc = "write", ![d].jobA = "queued", ![d].jobB = "queued",
                          ![d].tasksA = RemoveTasks(dels[d])[1],
                          ![d].tasksB = RemoveTasks(dels[d])[2]]
  /\ UNCHANGED <<tunnels, counter, calls, tasks, budget, derived>>

\* a refusal that is swallowed: oneTunnelDel goes on to its write
DelRefusedDeactivates(d, refusedA) ==
  /\ dels[d].pc = "queue"
  /\ dels' = [dels EXCEPT ![d].pc = "write",
                          ![d].jobA = IF refusedA THEN "none" ELSE "queued"]
  /\ UNCHANGED <<tunnels, counter, calls, tasks, budget, derived>>

\* the queue refuses the job of device A (refusedA), or accepts it and refuses
\* the job of device B: delTunnel rethrows and oneTunnelDel throws
DelRefused(d, refusedA) ==
  /\ dels[d].pc = "queue"
  /\ dels' = [dels EXCEPT ![d].pc = "failed",
                          ![d].jobA = IF refusedA THEN "none" ELSE "queued",
                          ![d].tasksA = IF refusedA THEN << >> ELSE RemoveTasks(dels[d])[1]]
  /\ UNCHANGED <<tunnels, counter, calls, tasks, budget, derived>>

\* the query { org } without the _id
DelWriteMatchesOrg(org, tid) == { i \in DOMAIN tunnels : tunnels[i].org = org }

\* the query { _id: tunnelID, org } of oneTunnelDel's findOneAndUpdate
DelWriteMatches(org, tid) ==
  { i \in DOMAIN tunnels : i = tid /\ tunnels[i].org = org }

\* its update { isActive: false, deviceAconf: false, deviceBconf: false }
DelUpdate(rec) ==
  [rec EXCEPT !.isActive = FALSE, !.deviceAconf = FALSE, !.deviceBconf = FALSE]

\* if (resp === null) throw new Error('Error deleting tunnel')
DelWrite(d) ==
  /\ dels[d].pc = "write"
  /\ IF DelWriteMatches(dels[d].org, dels[d].tunnelID) # {}
       THEN /\ \E i \in DelWriteMatches(dels[d].org, dels[d].tunnelID) :
                 tunnels' = [tunnels EXCEPT ![i] = DelUpdate(@)]
            /\ dels' = [dels EXCEPT ![d].pc = "done"]
       ELSE /\ dels' = [dels EXCEPT ![d].pc = "failed"]
            /\ UNCHANGED tunnels
  /\ UNCHANGED <<counter, calls, tasks, budget, derived>>

(***************************************************************************)
(* Callbacks of the device queue for the jobs of method 'tunnels'          *)
(***************************************************************************)
Sides == {"deviceAconf", "deviceBconf"}

JobOf(tk, side) == IF side = "deviceAconf" THEN tk.jobA ELSE tk.jobB

SetJob(ts, t, side, status) ==
  IF side = "deviceAconf" THEN [ts EXCEPT ![t].jobA = status]
  ELSE [ts EXCEPT ![t].jobB = status]

\* the response data queueTunnel gave the job of task t for this side:
\* { username, org, deviceA, deviceB, target }
Res(t, side) == [org |-> tasks[t].org, deviceA |-> tasks[t].deviceA,
                 deviceB |-> tasks[t].deviceB, target |-> side]

\* the query { deviceA, deviceB, org } of updateTunnelIsConnected
ConnectedMatches(res) ==
  { i \in DOMAIN tunnels :
      tunnels[i].deviceA = res.deviceA /\ tunnels[i].deviceB = res.deviceB
      /\ tunnels[i].org = res.org }

\* update[target] = isAdd
ConnectedUpdate(rec, target, isAdd) ==
  IF target = "deviceAconf" THEN [rec EXCEPT !.deviceAconf = isAdd]
  ELSE [rec EXCEPT !.deviceBconf = isAdd]

\* completeTunnelAdd: updateTunnelIsConnected(..., res.target, true)
CompleteTunnelAdd(t, side) ==
  /\ JobOf(tasks[t], side) = "queued"
  /\ IF ConnectedMatches(Res(t, side)) # {}
       THEN \E i \in ConnectedMatches(Res(t, side)) :
              tunnels' = [tunnels EXCEPT ![i] = ConnectedUpdate(@, Res(t, side).target, TRUE)]
       ELSE UNCHANGED tunnels
  /\ tasks' = SetJob(tasks, t, side, "completed")
  /\ UNCHANGED <<counter, calls, dels, budget, derived>>

\* the query without isActive: true
ErrorMatchesAnyState(res) ==
  { i \in DOMAIN tunnels :
      tunnels[i].deviceA = res.deviceA /\ tunnels[i].deviceB = res.deviceB
      /\ tunnels[i].org = res.org }

\* the query { deviceA, deviceB, org, isActive: true } of errorTunnelAdd
ErrorMatches(res) ==
  { i \in DOMAIN tunnels :
      tunnels[i].deviceA = res.deviceA /\ tunnels[i].deviceB = res.deviceB
      /\ tunnels[i].org = res.org /\ tunnels[i].isActive = TRUE }

\* errorTunnelAdd: a tunnel found is handed to oneTunnelDel, which issues its
\* query; none found is logged
ErrorTunnelAdd(t, side) ==
  /\ JobOf(tasks[t], side) = "queued"
  /\ IF ErrorMatches(Res(t, side)) # {}
       THEN /\ Rollbacks < MaxRollbacks
            /\ \E i \in ErrorMatches(Res(t, side)) :
                 dels' = Append(dels, Del("error", Res(t, side).org, i, t, side))
       ELSE UNCHANGED dels
  /\ tasks' = SetJob(tasks, t, side, "failed")
  /\ UNCHANGED <<tunnels, counter, calls, budget, derived>>

\* the removal of a job handled as its failure: the tunnel is rolled back
JobRemovedRollsBack(t, side) ==
  /\ JobOf(tasks[t], side) = "queued"
  /\ Rollbacks < MaxRollbacks
  /\ \E i \in ErrorMatches(Res(t, side)) :
       dels' = Append(dels, Del("error", Res(t, side).org, i, t, side))
  /\ tasks' = SetJob(tasks, t, side, "removed")
  /\ UNCHANGED <<tunnels, counter, calls, budget, derived>>

\* a queued add job is removed, by a user or by expiry, before it ran: the
\* module exports apply, complete and error handlers and no remove handler,
\* so none of its code runs and the job is never completed or failed
JobRemoved(t, side) ==
  /\ JobOf(tasks[t], side) = "queued"
  /\ tasks' = SetJob(tasks, t, side, "removed")
  /\ UNCHANGED <<tunnels, counter, calls, dels, budget, derived>>

(***************************************************************************)
(* The callbacks called with a payload that queueTunnel did not build.  A  *)
(* field that is missing, null or empty is "": !res.field is true of it.   *)
(***************************************************************************)
Payload(null, org, dA, dB, target, username) ==
  [null |-> null, org |-> org, deviceA |-> dA, deviceB |-> dB,
   target |-> target, username |-> username]

PayloadFields == {"deviceA", "deviceB", "target", "username", "org"}

\* no payload; and the payload of the job of device A of a tunnel between d1
\* and d2 without one of its fields
BadPayloads ==
  { Payload(TRUE, "", "", "", "", "") }
    \cup { [Payload(FALSE, "o1", "d1", "d2", "deviceAconf", "user") EXCEPT ![f] = ""] :
             f \in PayloadFields }

\* the check without the username
ValidResultNoUsername(res) ==
  /\ ~res.null
  /\ res.deviceA # "" /\ res.deviceB # "" /\ res.target # "" /\ res.org # ""

\* !(!res || !res.deviceA || !res.deviceB || !res.target || !res.username || !res.org)
ValidResult(res) ==
  /\ ~res.null
  /\ res.deviceA # "" /\ res.deviceB # "" /\ res.target # ""
  /\ res.username # "" /\ res.org # ""

\* what a handler did with a payload
Handled(op, res, out) == [op |-> op, res |-> res, out |-> out]

\* completeTunnelAdd(jobId, res)
CompleteTunnelAddWith(res) ==
  /\ IF ~ValidResult(res)
       THEN /\ derived' = Handled("completeTunnelAdd", res, "dropped")
            /\ UNCHANGED tunnels
       ELSE IF ConnectedMatches(res) # {}
         THEN /\ \E i \in ConnectedMatches(res) :
                   tunnels' = [tunnels EXCEPT ![i] = ConnectedUpdate(@, res.target, TRUE)]
              /\ derived' = Handled("completeTunnelAdd", res, "updated")
         ELSE /\ derived' = Handled("completeTunnelAdd", res, "failure")
              /\ UNCHANGED tunnels
  /\ UNCHANGED <<counter, calls, tasks, dels, budget>>

\* errorTunnelAdd(jobId, res)
ErrorTunnelAddWith(res) ==
  /\ IF ~ValidResult(res)
       THEN /\ derived' = Handled("errorTunnelAdd", res, "dropped")
            /\ UNCHANGED dels
       ELSE IF ErrorMatches(res) # {}
         THEN /\ Rollbacks < MaxRollbacks
              /\ \E i \in ErrorMatches(res) :
                   dels' = Append(dels, Del("error", res.org, i, 0, res.target))
              /\ derived' = Handled("errorTunnelAdd", res, "rollback")
         ELSE /\ derived' = Handled("errorTunnelAdd", res, "no tunnel")
              /\ UNCHANGED dels
  /\ UNCHANGED <<tunnels, counter, calls, tasks, budget>>

(***************************************************************************)
(* Specification                                                           *)
(***************************************************************************)
\* the queue accepts every job
Next ==
  \/ \E in \in AddInputs : ApplyTunnelAdd(in)
  \/ \E t \in DOMAIN tasks : TunnelFind(t)
  \/ \E t \in DOMAIN tasks : TunnelClaim(t)
  \/ \E t \in DOMAIN tasks : CounterUpdate(t)
  \/ \E t \in DOMAIN tasks : CounterUpsert(t)
  \/ \E t \in DOMAIN tasks : TunnelWrite(t)
  \/ \E t \in DOMAIN tasks : QueueTunnel(t)
  \/ \E in \in DelInputs : ApplyTunnelDel(in)
  \/ \E d \in DOMAIN dels : DelFind(d)
  \/ \E d \in DOMAIN dels : DelTunnel(d)
  \/ \E d \in DOMAIN dels : DelWrite(d)
  \/ \E t \in DOMAIN tasks, side \in Sides : CompleteTunnelAdd(t, side)
  \/ \E t \in DOMAIN tasks, side \in Sides : ErrorTunnelAdd(t, side)

Spec == Init /\ [][Next]_vars

\* the queue may refuse a job
NextRefuse ==
  \/ Next
  \/ \E t \in DOMAIN tasks, refusedA \in BOOLEAN : QueueRefused(t, refusedA)
  \/ \E d \in DOMAIN dels, refusedA \in BOOLEAN : DelRefused(d, refusedA)

SpecRefuse == Init /\ [][NextRefuse]_vars

\* the calls of organization o1 next to the tunnels of organization o2: a
\* tunnel between d1 and d2 with number 1 that device B has not confirmed
\* yet and a deleted tunnel with number 2, while o1 has no tunnel and no
\* counter yet
IsoStore ==
  [tunnels |-> << Tunnel("o2", 1, TRUE, TRUE, FALSE, "d1", "i1w", "d2", "i2w"),
                  Tunnel("o2", 2, FALSE, FALSE, FALSE, "d1", "i1w", "d3", "i3w") >>,
   counter |-> [NoCounters EXCEPT !["o2"] = 2]]

InitIso ==
  /\ tunnels = IsoStore.tunnels /\ counter = IsoStore.counter
  /\ calls = << >> /\ tasks = << >> /\ dels = << >>
  /\ derived = NoDerived
  /\ budget = MaxOps

SpecIso == InitIso /\ [][Next]_vars

\* queued add jobs may be removed before they run
NextRemove ==
  \/ Next
  \/ \E t \in DOMAIN tasks, side \in Sides : JobRemoved(t, side)

InitRemove == Idle /\ budget = MaxOps

SpecRemove == InitRemove /\ [][NextRemove]_vars

\* one applyTunnelAdd call for three compatible devices with one assigned WAN
\* interface each, and the operations it starts, up to the return of the call
MeshInputs == { AddInput(<<"d1", "d2", "d3">>, Devices, [d \in Devices |-> 1]) }

NextMesh ==
  \/ \E in \in MeshInputs : ApplyTunnelAdd(in)
  \/ \E t \in DOMAIN tasks : TunnelFind(t)
  \/ \E t \in DOMAIN tasks : TunnelClaim(t)
  \/ \E t \in DOMAIN tasks : CounterUpdate(t)
  \/ \E t \in DOMAIN tasks : CounterUpsert(t)
  \/ \E t \in DOMAIN tasks : TunnelWrite(t)
  \/ \E t \in DOMAIN tasks : QueueTunnel(t)

InitMesh == Idle /\ budget = MaxMeshOps

SpecMesh == InitMesh /\ [][NextMesh]_vars

\* a step of the getTunnelPromise instance t: the continuation of a store
\* operation or of a job submission that has been answered
TunnelPromiseStep(t) ==
  \/ TunnelFind(t) \/ TunnelClaim(t) \/ CounterUpdate(t) \/ CounterUpsert(t)
  \/ TunnelWrite(t) \/ QueueTunnel(t)

\* the store and the queue answer every request, and the event loop runs the
\* continuation of every answered request
SpecMeshFair ==
  SpecMesh /\ \A t \in 1..MaxMeshOps : WF_vars(t \in DOMAIN tasks /\ TunnelPromiseStep(t))

\* the program with the callbacks called with payloads that fail their check
NextPayload ==
  \/ Next
  \/ \E res \in BadPayloads : CompleteTunnelAddWith(res)
  \/ \E res \in BadPayloads : ErrorTunnelAddWith(res)

InitPayload == Idle /\ budget = MaxPayloadOps

SpecPayload == InitPayload /\ [][NextPayload]_vars

\* one applyTunnelAdd call for a device with two assigned WAN interfaces and
\* a device with one, and the operations it starts, up to their end
CrossInputs == { AddInput(<<"d4", "d2">>, Devices, [d \in Devices |-> 1]) }

NextCross ==
  \/ \E in \in CrossInputs : ApplyTunnelAdd(in)
  \/ \E t \in DOMAIN tasks : TunnelFind(t)
  \/ \E t \in DOMAIN tasks : TunnelClaim(t)
  \/ \E t \in DOMAIN tasks : CounterUpdate(t)
  \/ \E t \in DOMAIN tasks : CounterUpsert(t)
  \/ \E t \in DOMAIN tasks : TunnelWrite(t)
  \/ \E t \in DOMAIN tasks : QueueTunnel(t)

InitCross == Idle /\ budget = MaxCrossOps

SpecCross == InitCross /\ [][NextCross]_vars

\* tunnels for the three pairs of three devices, and the deletion of the
\* second record of the store, with the operations they start up to the
\* submission of their jobs
ReissueAdds == { AddInput(<<"d1", "d2">>, Devices, [d \in Devices |-> 1]),
                 AddInput(<<"d1", "d3">>, Devices, [d \in Devices |-> 1]),
                 AddInput(<<"d3", "d2">>, Devices, [d \in Devices |-> 1]) }

ReissueDels == { DelInput(TRUE, {2}) }

NextReissue ==
  \/ \E in \in ReissueAdds : ApplyTunnelAdd(in)
  \/ \E t \in DOMAIN tasks : TunnelFind(t)
  \/ \E t \in DOMAIN tasks : TunnelClaim(t)
  \/ \E t \in DOMAIN tasks : CounterUpdate(t)
  \/ \E t \in DOMAIN tasks : CounterUpsert(t)
  \/ \E t \in DOMAIN tasks : TunnelWrite(t)
  \/ \E t \in DOMAIN tasks : QueueTunnel(t)
  \/ \E in \in ReissueDels : ApplyTunnelDel(in)
  \/ \E d \in DOMAIN dels : DelFind(d)
  \/ \E d \in DOMAIN dels : DelTunnel(d)
  \/ \E d \in DOMAIN dels : DelWrite(d)

InitReissue == Idle /\ budget = MaxReissueOps

SpecReissue == InitReissue /\ [][NextReissue]_vars

\* applyTunnelAdd calls and their operations with a store whose counter
\* update may fail with an error other than duplicate key
NextErr ==
  \/ \E in \in AddInputs : ApplyTunnelAdd(in)
  \/ \E t \in DOMAIN tasks : TunnelFind(t)
  \/ \E t \in DOMAIN tasks : TunnelClaim(t)
  \/ \E t \in DOMAIN tasks : CounterUpdate(t)
  \/ \E t \in DOMAIN tasks : CounterUpsert(t)
  \/ \E t \in DOMAIN tasks, code \in OtherErrors : CounterError(t, code)
  \/ \E t \in DOMAIN tasks : TunnelWrite(t)
  \/ \E t \in DOMAIN tasks : QueueTunnel(t)

InitErr == Idle /\ budget = MaxErrOps

SpecErr == InitErr /\ [][NextErr]_vars

(***************************************************************************)
(* The functions of the tunnel number by themselves                        *)
(***************************************************************************)
\* the tunnel numbers given to generateTunnelParams
GenNums == (0..MaxGenNum) \cup {MaxTunnelID - 1}

\* the interfaces of device d
Intfs(d) == { DeviceInterfaces(d)[k] : k \in DOMAIN DeviceInterfaces(d) }

\* generateTunnelParams for two tunnel numbers; the add and the remove tasks
\* for one tunnel number and two interfaces of different devices
PureInputs ==
  { [op |-> "params", n |-> n, m |-> m, out |-> << >>] : n \in GenNums, m \in GenNums }
    \cup UNION { { [op |-> "jobs", n |-> n, deviceAIntf |-> a, deviceBIntf |-> b, out |-> << >>] :
                     a \in Intfs(p[1]), b \in Intfs(p[2]), n \in GenNums } :
                 p \in { q \in Devices \X Devices : q[1] # q[2] } }

InitPure ==
  /\ tunnels = << >> /\ counter = NoCounters
  /\ calls = << >> /\ tasks = << >> /\ dels = << >>
  /\ budget = 0
  /\ derived \in PureInputs

GenerateTunnelParams ==
  /\ derived.op = "params" /\ derived.out = << >>
  /\ derived' = [derived EXCEPT !.out = << generateTunnelParams(derived.n),
                                           generateTunnelParams(derived.m) >>]
  /\ UNCHANGED <<tunnels, counter, calls, tasks, dels, budget>>

PrepareTunnelJobs ==
  /\ derived.op = "jobs" /\ derived.out = << >>
  /\ derived' = [derived EXCEPT !.out =
                   << prepareTunnelAddJob(derived.n, derived.deviceAIntf, derived.deviceBIntf),
                      prepareTunnelRemoveJob(derived.n, derived.deviceAIntf, derived.deviceBIntf) >>]
  /\ UNCHANGED <<tunnels, counter, calls, tasks, dels, budget>>

NextPure == GenerateTunnelParams \/ PrepareTunnelJobs

SpecPure == InitPure /\ [][NextPure]_vars

(***************************************************************************)
(* The deploy of an application (apply with op 'deploy').  One purchased   *)
(* application that is not removed; applications[d] is the status of its   *)
(* entry in the applications array of device d, NoEntry when the array has *)
(* no entry of it.  All devices belong to the organization of the call.    *)
(***************************************************************************)
AppDevices == {"d1", "d2", "d3"}

NoEntry == "none"

\* deviceList: the devices handed to apply, in order, without repetition
DeviceLists ==
  { l \in UNION { [1..n -> AppDevices] : n \in 0..Cardinality(AppDevices) } :
      \A j, k \in DOMAIN l : l[j] = l[k] => j = k }

\* data.devices: absent, or an object whose keys are device ids
NoDevices == [given |-> FALSE, ids |-> {}]

AppInputs ==
  { [deviceList |-> l, devices |-> sel] :
      l \in DeviceLists,
      sel \in {NoDevices} \cup { [given |-> TRUE, ids |-> x] : x \in SUBSET AppDevices } }

\* getOpDevices: the keys of devicesObj when it has any, otherwise the
\* devices with an entry of the application whose status is neither
\* 'installing' nor 'installed'
getOpDevices(devicesObj, applications) ==
  IF devicesObj # {} THEN devicesObj
  ELSE { d \in AppDevices : applications[d] \notin {NoEntry, "installing", "installed"} }

\* deviceIds = data.devices ? getOpDevices(...) : [deviceList[0]._id]
DeviceIds(in, applications) ==
  IF in.devices.given THEN getOpDevices(in.devices.ids, applications)
  ELSE {in.deviceList[1]}

\* updateMany({ _id: { $in: deviceIds }, org, 'applications.app': { $ne } },
\*            { $push: { applications: { app, status: 'installing' } } })
DeployUpdate(applications, deviceIds) ==
  [d \in AppDevices |->
     IF d \in deviceIds /\ applications[d] = NoEntry THEN "installing"
     ELSE applications[d]]

InitApplications == [AppDevices -> {NoEntry, "installed", "job queue failed"}]

\* apply, up to the end of the transaction: the entries are pushed for
\* deviceIds.  Without data.devices the first device of deviceList is read,
\* so the list is not empty.
ApplyDeploy(in) ==
  /\ derived.pc \in {"idle", "returned"}
  /\ budget > 0
  /\ ~in.devices.given => Len(in.deviceList) >= 1
  /\ budget' = budget - 1
  /\ derived' = [derived EXCEPT
                   !.pc = "queue", !.deviceList = in.deviceList, !.jobs = << >>,
                   !.result = [ids |-> << >>, status |-> "", message |-> << >>],
                   !.applications = DeployUpdate(derived.applications,
                                                 DeviceIds(in, derived.applications))]
  /\ UNCHANGED <<tunnels, counter, calls, tasks, dels>>

\* the ids of the jobs that were accepted, in the order of the jobs; the id
\* of a job is its place in deviceList
SucceededToQueue(jobs) ==
  SelectSeq([k \in DOMAIN jobs |-> k], LAMBDA k : jobs[k] = "fulfilled")

\* the devices of the jobs that were rejected
FailedDevices(deviceList, jobs) ==
  { deviceList[k] : k \in { j \in DOMAIN jobs : jobs[j] = "rejected" } }

\* the value apply returns; the message "n of m application jobs added" is
\* << n, m >>, the empty message << >>
ApplyResult(jobs) ==
  IF \A k \in DOMAIN jobs : jobs[k] # "rejected"
    THEN [ids |-> SucceededToQueue(jobs), status |-> "completed", message |-> << >>]
    ELSE [ids |-> SucceededToQueue(jobs), status |-> "partially completed",
          message |-> << Len(SucceededToQueue(jobs)), Len(jobs) >>]

\* queueApplicationJob: one job per device of deviceList, settled together;
\* the queue accepts the jobs at the places in accepted.  Without a rejected
\* job apply returns.
queueApplicationJob(accepted) ==
  /\ derived.pc = "queue"
  /\ accepted \subseteq DOMAIN derived.deviceList
  /\ LET jobs == [k \in DOMAIN derived.deviceList |->
                    IF k \in accepted THEN "fulfilled" ELSE "rejected"]
     IN derived' = [derived EXCEPT
                      !.jobs = jobs,
                      !.pc = IF accepted = DOMAIN derived.deviceList
                               THEN "returned" ELSE "annotate",
                      !.result = IF accepted = DOMAIN derived.deviceList
                                   THEN ApplyResult(jobs) ELSE @]
  /\ UNCHANGED <<tunnels, counter, calls, tasks, dels, budget>>

\* updateMany({ _id: { $in: failedDevices }, org, 'applications.app': app._id },
\*            { $set: { 'applications.$.status': 'job queue failed' } })
FailedUpdate(applications, failedDevices) ==
  [d \in AppDevices |->
     IF d \in failedDevices /\ applications[d] # NoEntry THEN "job queue failed"
     ELSE applications[d]]

\* apply after a rejected job: the status update, and the return
ApplyFailed ==
  /\ derived.pc = "annotate"
  /\ derived' = [derived EXCEPT
                   !.pc = "returned",
                   !.applications = FailedUpdate(derived.applications,
                                                 FailedDevices(derived.deviceList,
                                                               derived.jobs)),
                   !.result = ApplyResult(derived.jobs)]
  /\ UNCHANGED <<tunnels, counter, calls, tasks, dels, budget>>

NextApp ==
  \/ \E in \in AppInputs : ApplyDeploy(in)
  \/ \E accepted \in SUBSET (1..Cardinality(AppDevices)) : queueApplicationJob(accepted)
  \/ ApplyFailed

InitApp ==
  /\ tunnels = << >> /\ counter = NoCounters
  /\ calls = << >> /\ tasks = << >> /\ dels = << >>
  /\ budget = MaxAppOps
  /\ \E a \in InitApplications :
       derived = [op |-> "application", pc |-> "idle", applications |-> a,
                  deviceList |-> << >>, jobs |-> << >>,
                  result |-> [ids |-> << >>, status |-> "", message |-> << >>]]

SpecApp == InitApp /\ [][NextApp]_vars

(***************************************************************************)
(* Properties                                                              *)
(***************************************************************************)
Recs == DOMAIN tunnels
Tasks == DOMAIN tasks
Dels == DOMAIN dels

InactiveRecs(o) == { i \in Recs : tunnels[i].org = o /\ ~tunnels[i].isActive }

\* task t is between obtaining its number and addTunnel's write
Holds(t) == tasks[t].pc = "write"

\* record i is claimed for reuse and still carries the deleted tunnel
Stale(i) ==
  \E t \in Tasks : /\ Holds(t) /\ tasks[t].how = "claimed"
                   /\ tasks[t].org = tunnels[i].org /\ tasks[t].num = tunnels[i].num

\* the step in which task t asks for an inactive record
ClaimStep(t) == tasks[t].pc = "claim" /\ tasks'[t].pc # "claim"

\* the step in which task t obtains a number from the counter
MintStep(t) == tasks[t].how = "none" /\ tasks'[t].how = "minted"

\* C1: in every reachable state the active tunnel records of one organization
\* carry pairwise distinct numbers, and a number minted from the counter and
\* not yet written is carried by no record of the organization and held by no
\* other allocation
C1_UniqueNumbers ==
  /\ \A i, j \in Recs :
       /\ i # j /\ tunnels[i].org = tunnels[j].org
       /\ tunnels[i].isActive /\ tunnels[j].isActive
       => tunnels[i].num # tunnels[j].num
  /\ \A t \in Tasks :
       Holds(t) /\ tasks[t].how = "minted"
       => /\ \A i \in Recs : ~(tunnels[i].org = tasks[t].org /\ tunnels[i].num = tasks[t].num)
          /\ \A u \in Tasks : u # t /\ Holds(u) /\ tasks[u].org = tasks[t].org
                              => tasks[u].num # tasks[t].num

\* two tunnels of one organization are active at once, one on a reused number
\* and one on a minted number
C1_Witness ==
  \E t, u \in Tasks :
    /\ tasks[t].how = "claimed" /\ tasks[u].how = "minted"
    /\ tasks[t].pc = "resolved" /\ tasks[u].pc = "resolved"
    /\ \E i, j \in Recs :
         /\ i # j /\ tunnels[i].isActive /\ tunnels[j].isActive
         /\ tunnels[i].org = tasks[t].org /\ tunnels[i].num = tasks[t].num
         /\ tunnels[j].org = tasks[u].org /\ tunnels[j].num = tasks[u].num

\* records i and j connect the same two devices over the same two interfaces
SameLink(i, j) ==
  \/ /\ tunnels[i].deviceA = tunnels[j].deviceA /\ tunnels[i].interfaceA = tunnels[j].interfaceA
     /\ tunnels[i].deviceB = tunnels[j].deviceB /\ tunnels[i].interfaceB = tunnels[j].interfaceB
  \/ /\ tunnels[i].deviceA = tunnels[j].deviceB /\ tunnels[i].interfaceA = tunnels[j].interfaceB
     /\ tunnels[i].deviceB = tunnels[j].deviceA /\ tunnels[i].interfaceB = tunnels[j].interfaceA

\* C2: in every reachable state an organization has at most one active tunnel
\* record for an unordered device pair and interface pair (a record claimed
\* for reuse and not yet rewritten does not count)
C2_OneTunnelPerLink ==
  \A i, j \in Recs :
    /\ i # j /\ tunnels[i].org = tunnels[j].org
    /\ tunnels[i].isActive /\ tunnels[j].isActive
    /\ ~Stale(i) /\ ~Stale(j)
    => ~SameLink(i, j)

\* C3: a getTunnelPromise of an applyTunnelAdd call that failed on a router
\* version mismatch mutates nothing: none of its steps changes a tunnel
\* record or a counter, and it obtains no number and submits no job
C3_MismatchMutatesNothing ==
  [][ \A t \in Tasks :
        calls[tasks[t].call].reason = "version" /\ tasks'[t] # tasks[t]
        => /\ tunnels' = tunnels /\ counter' = counter
           /\ tasks'[t].how = "none" /\ tasks'[t].num = NoNum
           /\ tasks'[t].jobA = "none" /\ tasks'[t].jobB = "none" ]_vars

\* the claim step of an allocation in an organization that has an inactive
\* record returns the number of one, makes that record active and leaves the
\* counter as it is
ClaimsInactive(t) ==
  ClaimStep(t) /\ InactiveRecs(tasks[t].org) # {}
  => /\ \E i \in InactiveRecs(tasks[t].org) :
          /\ tasks'[t].num = tunnels[i].num
          /\ tunnels'[i].isActive
          /\ \A j \in Recs \ {i} : tunnels'[j] = tunnels[j]
     /\ tasks'[t].how = "claimed"
     /\ counter' = counter

\* C4 as claimed: an allocation in an organization that has an inactive record
\* claims one and leaves the counter, and the counter is incremented only when
\* the organization has no inactive record
C4_IncrementOnlyWithoutInactive ==
  [][ /\ \A t \in Tasks : ClaimsInactive(t)
      /\ \A o \in Orgs : counter'[o] # counter[o] => InactiveRecs(o) = {} ]_vars

\* C4 as amended: an allocation in an organization that has an inactive record
\* claims one and leaves the counter, and the counter is incremented only by an
\* allocation whose own claim attempt found no inactive record
C4_IncrementOnlyAfterEmptyClaim ==
  [][ /\ \A t \in Tasks : ClaimsInactive(t)
      /\ \A t \in Tasks : ClaimStep(t) /\ tasks'[t].pc = "mint"
                          => InactiveRecs(tasks[t].org) = {} /\ UNCHANGED <<tunnels, counter>>
      /\ \A o \in Orgs :
           counter'[o] # counter[o]
           => \E t \in Tasks : /\ tasks[t].org = o /\ tasks[t].pc \in {"mint", "insert"}
                               /\ MintStep(t) ]_vars

\* an allocation has reused the number of a deleted tunnel while the counter
\* of its organization stayed where the initial store had it
C4_Witness ==
  \E t \in Tasks :
    /\ tasks[t].how = "claimed" /\ tasks[t].pc = "resolved"
    /\ counter[tasks[t].org] = 1
    /\ \E i \in Recs : /\ tunnels[i].org = tasks[t].org /\ tunnels[i].num = tasks[t].num
                       /\ tunnels[i].isActive /\ tunnels[i].deviceA = tasks[t].deviceA

\* the active records of the organization and the device pair, in the device
\* order, of the jobs of task t
ActiveOfJob(t) ==
  { i \in Recs : /\ tunnels[i].isActive /\ tunnels[i].org = tasks[t].org
                 /\ tunnels[i].deviceA = tasks[t].deviceA
                 /\ tunnels[i].deviceB = tasks[t].deviceB }

SideJob(tk, side) == IF side = "deviceAconf" THEN tk.jobA ELSE tk.jobB

\* the step is the error (completion) callback of the job of task t for side
ErrorStep(t, side) == SideJob(tasks[t], side) = "queued" /\ SideJob(tasks'[t], side) = "failed"

CompleteStep(t, side) ==
  SideJob(tasks[t], side) = "queued" /\ SideJob(tasks'[t], side) = "completed"

C6_ErrorWithoutTunnelIsNoop ==
  [][ \A t \in Tasks, side \in Sides :
        ErrorStep(t, side) /\ ActiveOfJob(t) = {}
        => /\ UNCHANGED <<tunnels, counter, dels, calls>>
           /\ \A u \in Tasks : u # t => tasks'[u] = tasks[u]
           /\ tasks'[t].pc = tasks[t].pc /\ tasks'[t].num = tasks[t].num
           /\ \A r \in Sides : r # side => SideJob(tasks'[t], r) = SideJob(tasks[t], r) ]_vars

\* an error callback has run for a job whose tunnel was no longer active: the
\* job is failed and no oneTunnelDel was started for it
C6_Witness ==
  \E t \in Tasks, side \in Sides :
    /\ SideJob(tasks[t], side) = "failed"
    /\ \A d \in Dels : ~(dels[d].task = t /\ dels[d].side = side)

\* C7: a completion or error callback changes no tunnel record that is
\* inactive: an inactive record keeps deviceAconf = deviceBconf = FALSE
C7_CallbacksLeaveInactive ==
  [][ \A t \in Tasks, side \in Sides :
        CompleteStep(t, side) \/ ErrorStep(t, side)
        => \A i \in Recs : ~tunnels[i].isActive => tunnels'[i] = tunnels[i] ]_vars

\* C8: the deactivating write of oneTunnelDel is conditioned on what
\* oneTunnelDel read: it never lands on a record that has meanwhile become
\* another tunnel, so a record that is active at the write still connects the
\* devices and interfaces read
C8_DelWritesWhatItRead ==
  [][ \A d \in Dels :
        /\ dels[d].pc = "write" /\ dels'[d].pc = "done"
        /\ tunnels[dels[d].tunnelID].isActive
        => LET rec == tunnels[dels[d].tunnelID]
           IN /\ rec.deviceA = dels[d].deviceA /\ rec.interfaceA = dels[d].interfaceA
              /\ rec.deviceB = dels[d].deviceB /\ rec.interfaceB = dels[d].interfaceB ]_vars

\* the value of the counter of organization o, 0 when it has no document
CounterValue(o) == IF counter[o] = NoDoc THEN 0 ELSE counter[o]

\* C9 as claimed: a minted number is the value of the counter before the
\* increment (0 without a counter) and every number lies in [0, 15000)
C9_MintsPreIncrement ==
  [][ \A t \in Tasks :
        /\ MintStep(t) => tasks'[t].num = CounterValue(tasks[t].org)
        /\ tasks'[t].num # NoNum => tasks'[t].num \in 0..(MaxTunnelID - 1) ]_vars

\* C9 as amended: a minted number is the value of the counter after the
\* increment (1 without a counter), the increment is by one, and every number
\* handed out or carried by a record lies in [1, 15000]
C9_MintsPostIncrement ==
  [][ /\ \A t \in Tasks :
           /\ MintStep(t) => /\ tasks'[t].num = CounterValue(tasks[t].org) + 1
                             /\ counter'[tasks[t].org] = tasks'[t].num
           /\ tasks'[t].num # NoNum => tasks'[t].num \in 1..MaxTunnelID
      /\ \A i \in DOMAIN tunnels' : tunnels'[i].num \in 1..MaxTunnelID ]_vars

\* the last number of an organization has been minted: 15000
C9_Witness ==
  \E t \in Tasks : tasks[t].how = "minted" /\ tasks[t].num = MaxTunnelID

\* task t is past its claim attempt in an organization whose counter is full
AtCapacity(t) ==
  tasks[t].pc \in {"mint", "insert"} /\ counter[tasks[t].org] = MaxTunnelID

\* C10: an allocation that found no inactive record in an organization whose
\* counter has reached 15000 fails: it obtains no number, it ends rejected
\* after the second refused increment, and its steps change no tunnel record,
\* leave the counter and submit no job
C10_FullCounterRejects ==
  [][ \A t \in Tasks :
        AtCapacity(t)
        => /\ counter'[tasks[t].org] = counter[tasks[t].org]
           /\ tasks'[t].pc \in {"mint", "insert", "rejected"}
           /\ tasks'[t].num = NoNum /\ tasks'[t].how = "none"
           /\ tasks'[t].jobA = "none" /\ tasks'[t].jobB = "none"
           /\ tasks'[t] # tasks[t] => tunnels' = tunnels
           /\ tasks[t].pc = "insert" /\ tasks[t].try = 2 /\ tasks'[t] # tasks[t]
              => /\ tasks'[t].pc = "rejected"
                 /\ calls'[tasks[t].call].status = "rejected" ]_vars

\* an allocation was rejected in an organization without an inactive record
\* and with a full counter
C10_Witness ==
  \E t \in Tasks :
    /\ tasks[t].pc = "rejected" /\ tasks[t].num = NoNum
    /\ counter[tasks[t].org] = MaxTunnelID
    /\ InactiveRecs(tasks[t].org) = {}
    /\ calls[tasks[t].call].status = "rejected"

\* the devices supplied to a call that the selection of the call names
SelectedIn(call) ==
  { d \in Devices : d \in call.selected /\ \E k \in DOMAIN call.devices : call.devices[k] = d }

\* C11: an applyTunnelAdd call whose selection matches fewer than two of the
\* devices supplied fails with the validation error at once, and the call
\* starts no allocation: it claims no record, increments no counter, writes no
\* tunnel record and submits no job
C11_FewDevicesRejected ==
  [][ /\ \A c \in DOMAIN calls' :
           Cardinality(SelectedIn(calls'[c])) < 2
           => /\ calls'[c].status = "rejected" /\ calls'[c].reason = "count"
              /\ \A t \in DOMAIN tasks' : tasks'[t].call # c
      /\ Len(calls') = Len(calls) + 1 /\ Cardinality(SelectedIn(calls'[Len(calls')])) < 2
         => UNCHANGED <<tunnels, counter, tasks, dels>> ]_vars

\* a call with one matching device has been rejected
C11_Witness ==
  \E c \in DOMAIN calls :
    /\ Cardinality(SelectedIn(calls[c])) = 1 /\ Len(calls[c].devices) = 2
    /\ calls[c].status = "rejected" /\ calls[c].reason = "count"

\* the records of the organization and number of task t
RecsOf(t) == { i \in Recs : tunnels[i].org = tasks[t].org /\ tunnels[i].num = tasks[t].num }

\* the address the device behind interface intf is reached at
ReachedAt(intf) == IF intf.PublicIP # "" THEN intf.PublicIP ELSE intf.IPv4

\* C12: an applyTunnelAdd call for two devices with one assigned WAN interface
\* each starts exactly one operation; its write creates or rewrites exactly
\* one tunnel record, active with both confirmation flags false, and its two
\* add jobs, one for each device, both carry the number of that record as
\* tunnel-id, the IPv4 of the own interface as src and the public IP of the
\* peer's interface, or its IPv4 when it has none, as dst
C12_OneTunnelTwoJobs ==
  [][ /\ \A c \in DOMAIN calls' :
           /\ Cardinality(SelectedIn(calls'[c])) = 2 /\ calls'[c].reason # "version"
           /\ \A d \in SelectedIn(calls'[c]) : Len(WanIntfs(d)) = 1
           => Cardinality({ t \in DOMAIN tasks' : tasks'[t].call = c }) = 1
      /\ \A t \in Tasks :
           tasks[t].pc = "write" /\ tasks'[t].pc # "write"
           => \E i \in DOMAIN tunnels' :
                /\ tunnels'[i] = Tunnel(tasks[t].org, tasks[t].num, TRUE, FALSE, FALSE,
                                        tasks[t].deviceA, tasks[t].interfaceA,
                                        tasks[t].deviceB, tasks[t].interfaceB)
                /\ \A j \in DOMAIN tunnels' \ {i} : j \in Recs /\ tunnels'[j] = tunnels[j]
                /\ Len(tunnels') <= Len(tunnels) + 1
      /\ \A t \in Tasks :
           tasks[t].pc = "queue" /\ tasks'[t].pc # "queue"
           => LET a == IntfOf(tasks[t].deviceA, tasks[t].interfaceA)
                  b == IntfOf(tasks[t].deviceB, tasks[t].interfaceB)
                  pa == tasks'[t].tasksA[1]
                  pb == tasks'[t].tasksB[1]
              IN /\ tasks'[t].jobA = "queued" /\ tasks'[t].jobB = "queued"
                 /\ Len(tasks'[t].tasksA) = 1 /\ Len(tasks'[t].tasksB) = 1
                 /\ pa.message = "add-tunnel" /\ pb.message = "add-tunnel"
                 /\ pa.params.tunnel_id = tasks[t].num /\ pb.params.tunnel_id = tasks[t].num
                 /\ pa.params.src = a.IPv4 /\ pa.params.dst = ReachedAt(b)
                 /\ pb.params.src = b.IPv4 /\ pb.params.dst = ReachedAt(a) ]_vars

\* the tunnel between d1 and d2, whose interface has a public IP, is created:
\* one active unconfirmed record and two queued jobs, the job of d1 with the
\* public IP of d2 as dst and the job of d2 with the IPv4 of d1
C12_Witness ==
  \E t \in Tasks :
    /\ tasks[t].pc = "resolved" /\ tasks[t].deviceA = "d1" /\ tasks[t].deviceB = "d2"
    /\ tasks[t].jobA = "queued" /\ tasks[t].jobB = "queued"
    /\ tasks[t].tasksA[1].params.dst = "pub2" /\ tasks[t].tasksB[1].params.dst = "ip1"
    /\ \E i \in RecsOf(t) : /\ tunnels[i].isActive
                            /\ ~tunnels[i].deviceAconf /\ ~tunnels[i].deviceBconf
                            /\ tunnels[i].deviceA = "d1" /\ tunnels[i].deviceB = "d2"

\* the tasks of call c
TasksOf(c) == { t \in Tasks : tasks[t].call = c }

\* the active records of organization o that connect devices a and b
ActiveBetween(o, a, b) ==
  { i \in Recs : /\ tunnels[i].isActive /\ tunnels[i].org = o
                 /\ \/ tunnels[i].deviceA = a /\ tunnels[i].deviceB = b
                    \/ tunnels[i].deviceA = b /\ tunnels[i].deviceB = a }

\* the active records of organization o between two devices of the set D
ActiveAmong(o, D) ==
  { i \in Recs : /\ tunnels[i].isActive /\ tunnels[i].org = o
                 /\ tunnels[i].deviceA \in D /\ tunnels[i].deviceB \in D }

C14_BadDeleteRejected ==
  \A d \in Dels :
    dels[d].kind = "api" /\ (~dels[d].context \/ Cardinality(dels[d].selected) # 1)
    => /\ dels[d].pc = "failed"
       /\ dels[d].jobA = "none" /\ dels[d].jobB = "none"

\* C15: a tunnel record goes from active to inactive only in the write of a
\* oneTunnelDel whose two remove jobs the queue has accepted (and not yet
\* run); when the queue refuses one of the two jobs, oneTunnelDel fails, the
\* step changes no tunnel record, and the failed oneTunnelDel changes none
\* later
C15_DeactivateAfterAccept ==
  [][ /\ \A i \in Recs :
           tunnels[i].isActive /\ ~tunnels'[i].isActive
           => \E d \in Dels : /\ dels[d].pc = "write" /\ dels'[d].pc = "done"
                              /\ dels[d].tunnelID = i
                              /\ dels[d].jobA = "queued" /\ dels[d].jobB = "queued"
      /\ \A d \in Dels :
           /\ dels[d].pc = "queue" /\ dels'[d].pc = "failed"
              => /\ tunnels' = tunnels /\ counter' = counter
                 /\ dels'[d].jobB = "none"
           /\ dels[d].pc = "failed" => dels'[d] = dels[d]
           /\ dels[d].pc = "write" /\ dels'[d] # dels[d]
              => dels[d].jobA = "queued" /\ dels[d].jobB = "queued" ]_vars

\* the queue accepted the remove job of device A and refused that of device
\* B: oneTunnelDel has failed and the tunnel is still active
C15_Witness ==
  \E d \in Dels :
    /\ dels[d].pc = "failed" /\ dels[d].jobA = "queued" /\ dels[d].jobB = "none"
    /\ dels[d].num # NoNum
    /\ tunnels[dels[d].tunnelID].isActive
    /\ tunnels[dels[d].tunnelID].num = dels[d].num
    /\ dels[d].tunnelID \notin InactiveRecs(dels[d].org)

\* C16: the steps of an applyTunnelDel call that succeeds change one record
\* only, the one selected, and of it only isActive, deviceAconf and
\* deviceBconf, which its write sets to false: the record keeps its number and
\* its devices and interfaces, no record is added, and every other record and
\* every counter stay as they are
C16_DeleteChangesOneRecord ==
  [][ \A d \in Dels :
        dels[d].kind = "api" /\ dels'[d] # dels[d]
        => /\ counter' = counter
           /\ Len(tunnels') = Len(tunnels)
           /\ dels[d].pc # "write" => tunnels' = tunnels
           /\ dels[d].pc = "write"
              => /\ dels'[d].pc = "done"
                 /\ \A j \in Recs : j # dels[d].tunnelID => tunnels'[j] = tunnels[j]
                 /\ LET old == tunnels[dels[d].tunnelID]
                        new == tunnels'[dels[d].tunnelID]
                    IN /\ ~new.isActive /\ ~new.deviceAconf /\ ~new.deviceBconf
                       /\ new.num = old.num /\ new.org = old.org
                       /\ new.deviceA = old.deviceA /\ new.interfaceA = old.interfaceA
                       /\ new.deviceB = old.deviceB /\ new.interfaceB = old.interfaceB ]_vars

\* an applyTunnelDel call has succeeded on a tunnel that was confirmed on both
\* sides, next to another tunnel record of the organization: the record is
\* inactive, unconfirmed, and has the number and the devices the call read
C16_Witness ==
  \E d \in Dels :
    LET rec == tunnels[dels[d].tunnelID]
    IN /\ dels[d].kind = "api" /\ dels[d].pc = "done"
       /\ ~rec.isActive /\ ~rec.deviceAconf /\ ~rec.deviceBconf
       /\ rec.num = dels[d].num /\ rec.num = MaxTunnelID - Headroom
       /\ rec.deviceA = dels[d].deviceA /\ rec.deviceB = dels[d].deviceB
       /\ \E j \in Recs : j # dels[d].tunnelID /\ tunnels[j].org = rec.org /\ tunnels[j].isActive

\* the add tasks and the remove tasks of an evaluation have been built
JobsBuilt == derived.op = "jobs" /\ derived.out # << >>

\* C17: for one tunnel number and the same two interfaces, the remove task of
\* each side carries the tunnel-id, src, dst, loopback address and loopback
\* MAC of the add task of that side, and nothing else: no ipsec block, no keys
C17_RemoveMatchesAdd ==
  JobsBuilt
  => \A k \in 1..2 :
       LET add == derived.out[1][k]
           rem == derived.out[2][k]
       IN /\ Len(add) = 1 /\ Len(rem) = 1
          /\ add[1].message = "add-tunnel" /\ rem[1].message = "remove-tunnel"
          /\ rem[1].params.tunnel_id = derived.n
          /\ rem[1].params.tunnel_id = add[1].params.tunnel_id
          /\ rem[1].params.src = add[1].params.src
          /\ rem[1].params.dst = add[1].params.dst
          /\ rem[1].params.loopback_iface.addr = add[1].params.loopback_iface.addr
          /\ rem[1].params.loopback_iface.mac = add[1].params.loopback_iface.mac
          /\ "ipsec" \in DOMAIN add[1].params
          /\ DOMAIN rem[1].params = {"src", "dst", "tunnel_id", "loopback_iface"}
          /\ DOMAIN rem[1].params.loopback_iface = {"addr", "mac"}

\* the tasks are built for the last tunnel number and a peer with a public IP
C17_Witness ==
  /\ JobsBuilt /\ derived.n = MaxTunnelID - 1
  /\ derived.deviceBIntf.PublicIP # ""
  /\ derived.out[2][1][1].params.dst = derived.deviceBIntf.PublicIP
  /\ derived.out[2][1][1].params.loopback_iface.addr # derived.out[2][2][1].params.loopback_iface.addr

\* generateTunnelParams has been evaluated for the two tunnel numbers
ParamsBuilt == derived.op = "params" /\ derived.out # << >>

\* the value of the two hexadecimal digits of a MAC octet
OctetValue(digits) == digits[1] * 16 + digits[2]

\* C18: for a tunnel number n in [0, 15000) the result of generateTunnelParams
\* depends on n alone (two evaluations for one n agree) and, with
\* h = (n mod 127 + 1) * 2 and l = floor(n / 127): h is even,
\* ip1 = 10.100.l.h differs from ip2 = 10.100.l.(h+1), sa1 = l*256 + h and
\* sa2 = sa1 + 1
C18_ParamsOfNumber ==
  ParamsBuilt /\ derived.n \in 0..(MaxTunnelID - 1)
  => LET p == derived.out[1]
         h == ((derived.n % 127) + 1) * 2
         l == derived.n \div 127
     IN /\ derived.m = derived.n => derived.out[2] = p
        /\ h % 2 = 0
        /\ p.ip1 = <<10, 100, l, h>> /\ p.ip2 = <<10, 100, l, h + 1>>
        /\ p.ip1 # p.ip2
        /\ p.sa1 = l * 256 + h /\ p.sa2 = p.sa1 + 1

\* the parameters of tunnel number 127, the first with l = 1, are computed
C18_Witness ==
  /\ ParamsBuilt /\ derived.n = 127 /\ derived.m = 127
  /\ derived.out[1].ip1 = <<10, 100, 1, 2>> /\ derived.out[1].sa2 = 259

\* C19: for two distinct tunnel numbers in [0, 15000) the security
\* association ids, the loopback addresses and the loopback MACs of the one
\* are all different from those of the other, and the third and fourth number
\* of each address are in 0..255, so that the MAC octets printed for them
\* have those values
C19_ParamsDisjoint ==
  /\ ParamsBuilt /\ derived.n # derived.m
  /\ derived.n \in 0..(MaxTunnelID - 1) /\ derived.m \in 0..(MaxTunnelID - 1)
  => LET p == derived.out[1]
         q == derived.out[2]
     IN /\ {p.sa1, p.sa2} \cap {q.sa1, q.sa2} = {}
        /\ {p.ip1, p.ip2} \cap {q.ip1, q.ip2} = {}
        /\ {p.mac1, p.mac2} \cap {q.mac1, q.mac2} = {}
        /\ \A r \in {p, q} :
             /\ r.ip1[3] \in 0..255 /\ r.ip1[4] \in 0..255 /\ r.ip2[4] \in 0..255
             /\ OctetValue(r.mac1[5]) = r.ip1[3] /\ OctetValue(r.mac1[6]) = r.ip1[4]
             /\ OctetValue(r.mac2[5]) = r.ip2[3] /\ OctetValue(r.mac2[6]) = r.ip2[4]

\* the parameters of the tunnel numbers 126 and 127, which are neighbours
\* across the change of l, and the last number's octets are computed
C19_Witness ==
  /\ ParamsBuilt /\ derived.n = 126 /\ derived.m = MaxTunnelID - 1
  /\ derived.out[1].ip2[4] = 255
  /\ derived.out[2].ip1[3] = 118

\* C20: an applyTunnelAdd call has returned, fulfilled or rejected, only when
\* every getTunnelPromise it started has finished
C20_ReturnsAfterAllFinish ==
  \A c \in DOMAIN calls :
    calls[c].status # "pending"
    => \A t \in TasksOf(c) : tasks[t].pc \in {"resolved", "skipped", "rejected"}

\* the queue refused one of the two add jobs of task t: queueTunnel threw
\* after addTunnel's write
Refused(t) == tasks[t].pc \in {"rejected", "hung"} /\ tasks[t].num # NoNum

\* C21: an applyTunnelAdd call is not rejected because the queue refused an
\* add job of one of its tunnels: a call one of whose operations ended on a
\* refused job is rejected only for the device count or the router versions
C21_RefusalDoesNotReject ==
  \A c \in DOMAIN calls :
    (\E t \in TasksOf(c) : Refused(t)) /\ calls[c].status = "rejected"
    => calls[c].reason \in {"count", "version"}

\* no callback of an add job has run and no oneTunnelDel was started
Untouched ==
  /\ dels = << >>
  /\ \A u \in Tasks : tasks[u].jobA \in {"none", "queued"} /\ tasks[u].jobB \in {"none", "queued"}

\* C22: the step in which the queue refuses an add job of a tunnel changes no
\* tunnel record and no counter and starts no oneTunnelDel, so no remove job
\* is submitted; the record of the tunnel, when no callback and no delete
\* touched it, is active with both confirmation flags false; the operation
\* does nothing after the refusal; and a record goes from active to inactive
\* only in the write of a oneTunnelDel, which an error callback or an
\* applyTunnelDel call started
C22_RefusalKeepsTunnel ==
  [][ /\ \A t \in Tasks :
           tasks[t].pc = "queue" /\ Refused(t)'
           => /\ tunnels' = tunnels /\ counter' = counter /\ dels' = dels
              /\ tasks'[t].jobB = "none"
              /\ Untouched
                 => \E i \in RecsOf(t) : /\ tunnels'[i].isActive
                                         /\ ~tunnels'[i].deviceAconf /\ ~tunnels'[i].deviceBconf
      /\ \A t \in Tasks :
           Refused(t) => /\ tasks'[t].pc = tasks[t].pc /\ tasks'[t].num = tasks[t].num
                         /\ tasks'[t].jobB = "none"
      /\ \A i \in Recs :
           tunnels[i].isActive /\ ~tunnels'[i].isActive
           => \E d \in Dels : /\ dels[d].pc = "write" /\ dels'[d].pc = "done"
                              /\ dels[d].tunnelID = i /\ dels[d].kind \in {"api", "error"} ]_vars

\* the queue accepted the add job of device A and refused that of device B:
\* the operation was rejected, its record is active and unconfirmed, and no
\* oneTunnelDel exists
C22_Witness ==
  \E t \in Tasks :
    /\ Refused(t) /\ tasks[t].jobA = "queued" /\ tasks[t].jobB = "none"
    /\ dels = << >>
    /\ \E i \in RecsOf(t) : /\ tunnels[i].isActive
                            /\ ~tunnels[i].deviceAconf /\ ~tunnels[i].deviceBconf
                            /\ tunnels[i].deviceA = tasks[t].deviceA

\* another operation of the call of task t was rejected
SiblingFailed(t) ==
  \E u \in Tasks : u # t /\ tasks[u].call = tasks[t].call /\ tasks[u].pc = "rejected"

\* the tunnel of task t is created: its record is written and active and its
\* two add jobs are queued
Created(t) ==
  /\ tasks[t].pc = "resolved" /\ tasks[t].jobA = "queued" /\ tasks[t].jobB = "queued"
  /\ \E i \in RecsOf(t) : /\ tunnels[i].isActive
                          /\ tunnels[i].deviceA = tasks[t].deviceA
                          /\ tunnels[i].deviceB = tasks[t].deviceB

\* C23: an operation of an applyTunnelAdd call is rejected only by the error
\* of its own counter update, and the rejection of one operation stops no
\* other operation of the call: an operation that has its number goes on to
\* write its record and to queue its two add jobs, and an operation that is
\* still on its way to a number goes on to its own end
C23_OthersContinue ==
  /\ [][ \A t \in Tasks : tasks[t].pc # "rejected" /\ tasks'[t].pc = "rejected"
                          => tasks[t].pc = "insert" /\ tasks[t].num = NoNum ]_vars
  /\ \A t \in 1..MaxMeshOps :
       /\ (t \in Tasks /\ SiblingFailed(t) /\ tasks[t].pc \in {"write", "queue"})
            ~> (t \in Tasks /\ Created(t))
       /\ (t \in Tasks /\ SiblingFailed(t) /\ tasks[t].pc \in {"find", "claim", "mint", "insert"})
            ~> (t \in Tasks /\ (Created(t) \/ tasks[t].pc \in {"skipped", "rejected"}))

\* the counter was full for one operation of a call, which was rejected with
\* the call, and another operation of the call has created its tunnel with
\* the last number
C23_Witness ==
  \E t, u \in Tasks :
    /\ t # u /\ tasks[t].call = tasks[u].call
    /\ tasks[u].pc = "rejected" /\ tasks[u].try = 2
    /\ calls[tasks[t].call].status = "rejected"
    /\ Created(t) /\ tasks[t].how = "minted" /\ tasks[t].num = MaxTunnelID

\* the active record of the tunnel task t created, while it still connects
\* the devices of t
OwnActive(t) ==
  { i \in RecsOf(t) : /\ tunnels[i].isActive
                      /\ tunnels[i].deviceA = tasks[t].deviceA /\ tunnels[i].interfaceA = tasks[t].interfaceA
                      /\ tunnels[i].deviceB = tasks[t].deviceB /\ tunnels[i].interfaceB = tasks[t].interfaceB }

\* C24: the completion callback of the add job of one side of a tunnel whose
\* record is active sets the confirmation flag of that side on that record
\* and changes nothing else: not the other flag, isActive, the number or the
\* device and interface references of the record, no other record and no
\* counter
C24_CompleteSetsOwnFlag ==
  [][ \A t \in Tasks, side \in Sides :
        CompleteStep(t, side) /\ OwnActive(t) # {}
        => /\ \A i \in OwnActive(t) : tunnels'[i] = ConnectedUpdate(tunnels[i], side, TRUE)
           /\ \A j \in Recs \ OwnActive(t) : tunnels'[j] = tunnels[j]
           /\ DOMAIN tunnels' = Recs
           /\ counter' = counter ]_vars

\* the payload is missing or lacks one of the five fields
Lacking(res) == res.null \/ \E f \in PayloadFields : res[f] = ""

\* the step is a callback called with a payload of its own
PayloadStep == derived' # derived /\ derived'.op \in {"completeTunnelAdd", "errorTunnelAdd"}

\* C25: a completion or error callback whose payload is missing or lacks one
\* of deviceA, deviceB, target, username and org is dropped: the handler
\* returns at its check, and the step changes no tunnel record and no
\* counter, starts no oneTunnelDel and submits no job
C25_BadPayloadDropped ==
  [][ PayloadStep /\ Lacking(derived'.res)
      => /\ derived'.out = "dropped"
         /\ UNCHANGED <<tunnels, counter, calls, tasks, dels>> ]_vars

\* the error callback was called with a payload without username that names
\* the devices of an active tunnel of the organization, and was dropped: the
\* tunnel is active and no oneTunnelDel was started
C25_Witness ==
  /\ derived.op = "errorTunnelAdd" /\ derived.out = "dropped"
  /\ ~derived.res.null /\ derived.res.username = ""
  /\ \E i \in Recs : /\ tunnels[i].isActive /\ tunnels[i].org = derived.res.org
                     /\ tunnels[i].deviceA = derived.res.deviceA
                     /\ tunnels[i].deviceB = derived.res.deviceB
  /\ dels = << >>

\* C26: an operation of applyTunnelAdd whose query is answered while the
\* organization has an active tunnel between its two devices, stored in
\* either device order, ends there: the step and the operation afterwards
\* change no tunnel record and no counter, the operation obtains no number
\* and submits no job, and a call that passed its checks and all of whose
\* operations ended so is fulfilled
C26_ExistingPairSkipped ==
  [][ /\ \A t \in Tasks :
           /\ tasks[t].pc = "find" /\ tasks'[t].pc # "find"
           /\ ActiveBetween(tasks[t].org, tasks[t].deviceA, tasks[t].deviceB) # {}
           => /\ tasks'[t].pc = "skipped"
              /\ tasks'[t].num = NoNum /\ tasks'[t].jobA = "none" /\ tasks'[t].jobB = "none"
              /\ UNCHANGED <<tunnels, counter, dels>>
      /\ \A t \in Tasks : tasks[t].pc = "skipped" => tasks'[t] = tasks[t]
      /\ \A c \in DOMAIN calls' :
           /\ calls'[c].started > 0 /\ calls'[c].reason # "version"
           /\ \A t \in DOMAIN tasks' : tasks'[t].call = c => tasks'[t].pc = "skipped"
           => calls'[c].status = "fulfilled" ]_vars

\* a call for d2 and d1 in an organization with an active tunnel from d1 to
\* d2 is fulfilled, its operation found the tunnel and the store is as it was
C26_Witness ==
  \E t \in Tasks :
    /\ tasks[t].pc = "skipped" /\ tasks[t].deviceA = "d2" /\ tasks[t].deviceB = "d1"
    /\ calls[tasks[t].call].status = "fulfilled"
    /\ \E i \in Recs : /\ tunnels[i].isActive /\ tunnels[i].org = tasks[t].org
                       /\ tunnels[i].deviceA = "d1" /\ tunnels[i].deviceB = "d2"
    /\ \A i \in Recs : tunnels[i].deviceA # "d2"
    /\ counter = [NoCounters EXCEPT !["o1"] = MaxTunnelID - Headroom]

\* the interface of record i on the side of device d is an assigned WAN
\* interface of d
WanSide(d, id) == \E k \in DOMAIN WanIntfs(d) : WanIntfs(d)[k]._id = id

\* C27: when all operations of a fulfilled applyTunnelAdd call for two
\* compatible devices with a and b assigned WAN interfaces, between which no
\* tunnel existed, have ended, the organization has exactly a*b active tunnel
\* records between the two devices, one for every pair of such interfaces,
\* with pairwise distinct numbers; and no record written by an operation has
\* an interface that is unassigned or not of type WAN
C27_CrossProduct ==
  /\ \A c \in DOMAIN calls :
       LET a == calls[c].devices[1]
           b == calls[c].devices[2]
           made == ActiveBetween(calls[c].org, a, b)
       IN /\ calls[c].status = "fulfilled" /\ Len(calls[c].devices) = 2
          /\ \A t \in TasksOf(c) : tasks[t].pc \in {"resolved", "skipped"}
          => /\ Cardinality(made) = Len(WanIntfs(a)) * Len(WanIntfs(b))
             /\ \A i, j \in made :
                  i # j => /\ tunnels[i].num # tunnels[j].num
                           /\ <<tunnels[i].interfaceA, tunnels[i].interfaceB>>
                                # <<tunnels[j].interfaceA, tunnels[j].interfaceB>>
  /\ \A t \in Tasks : WanSide(tasks[t].deviceA, tasks[t].interfaceA)
                      /\ WanSide(tasks[t].deviceB, tasks[t].interfaceB)

\* the step in which the counter update of task t fails
FailStep(t) ==
  /\ tasks[t].pc \in {"mint", "insert"} /\ tasks'[t] # tasks[t]
  /\ tasks'[t].pc \in {"mint", "rejected"}

\* C28: a counter update that fails with the duplicate key error the first
\* time is tried a second time, and no further time; a second try that
\* succeeds gives the operation the number it returns, which the operation
\* keeps up to its write; a second try that fails, and a counter update that
\* fails with any other error, reject the operation, and with it the call,
\* without another try; no failure changes a tunnel record or a counter
C28_RetryOnceOnDuplicate ==
  [][ \A t \in Tasks :
        /\ FailStep(t)
           => /\ IF tasks'[t].err = DupKeyCode /\ tasks[t].try = 1
                   THEN /\ tasks'[t].pc = "mint" /\ tasks'[t].try = 2
                        /\ tasks'[t].num = NoNum
                        /\ calls'[tasks[t].call] = calls[tasks[t].call]
                   ELSE /\ tasks'[t].pc = "rejected" /\ tasks'[t].try = tasks[t].try
                        /\ calls'[tasks[t].call].status = "rejected"
              /\ UNCHANGED <<tunnels, counter>>
        /\ tasks'[t].try \in {1, 2}
        /\ tasks[t].pc = "rejected" => tasks'[t] = tasks[t]
        /\ MintStep(t) /\ tasks[t].try = 2
           => tasks'[t].num = counter'[tasks[t].org] /\ tasks'[t].pc = "write"
        /\ tasks[t].how = "minted" => tasks'[t].num = tasks[t].num
        /\ tasks[t].pc = "write" /\ tasks'[t].pc = "queue"
           => \E i \in DOMAIN tunnels' :
                /\ tunnels'[i].num = tasks[t].num /\ tunnels'[i].org = tasks[t].org
                /\ tunnels'[i].isActive /\ tunnels'[i].deviceA = tasks[t].deviceA ]_vars

\* the first counter update of an operation failed with the duplicate key
\* error, the second gave it number 2, and its tunnel is created with it
C28_Witness ==
  \E t \in Tasks :
    /\ tasks[t].try = 2 /\ tasks[t].err = DupKeyCode /\ tasks[t].how = "minted"
    /\ tasks[t].num = 2 /\ Created(t)

\* the tunnel records of organization o, active or not
RecsOfOrg(o) == { i \in Recs : tunnels[i].org = o }

\* C29: the counter of an organization never decreases, whatever the step
\* (an allocation that fails, a delete, a rollback, a callback), and never
\* exceeds 15000; every tunnel record of the organization carries a number
\* the counter has given out, and the organization has no more tunnel records
\* than the counter has given out numbers
C29_CounterMonotonicBounded ==
  /\ [](\A o \in Orgs :
          /\ CounterValue(o) >= 0 /\ CounterValue(o) <= MaxTunnelID
          /\ \A i \in RecsOfOrg(o) : tunnels[i].num >= 1 /\ tunnels[i].num <= CounterValue(o)
          /\ Cardinality(RecsOfOrg(o)) <= CounterValue(o))
  /\ [][ \A o \in Orgs : /\ CounterValue(o)' >= CounterValue(o)
                         /\ counter[o] # NoDoc => counter'[o] # NoDoc ]_vars

\* a tunnel was created with number 1 from the new counter of an organization
\* and rolled back after an error callback: its record is inactive and the
\* counter is still 1
C29_Witness ==
  \E t \in Tasks, d \in Dels :
    /\ tasks[t].how = "minted" /\ tasks[t].num = 1 /\ counter[tasks[t].org] = 1
    /\ dels[d].kind = "error" /\ dels[d].pc = "done" /\ dels[d].task = t
    /\ \E i \in RecsOf(t) : ~tunnels[i].isActive

\* the step submits an add job of task t
SubmitStep(t) ==
  \E side \in Sides : SideJob(tasks[t], side) = "none" /\ SideJob(tasks'[t], side) = "queued"

\* an add job of task t is submitted only after addTunnel's write, and that
\* write left a record with the organization, the number, the devices and the
\* interfaces of t, active and with both confirmation flags false
WrittenBeforeSubmit ==
  \A t \in Tasks :
    /\ SubmitStep(t) => tasks[t].pc = "queue"
    /\ tasks[t].pc # "queue" /\ tasks'[t].pc = "queue"
       => /\ tasks[t].pc = "write"
          /\ \E i \in DOMAIN tunnels' :
               tunnels'[i] = Tunnel(tasks[t].org, tasks[t].num, TRUE, FALSE, FALSE,
                                    tasks[t].deviceA, tasks[t].interfaceA,
                                    tasks[t].deviceB, tasks[t].interfaceB)

\* after the step some record of organization and devices of task t has the
\* confirmation flag of this side set
FlagSet(t, side) ==
  \E i \in DOMAIN tunnels' :
    /\ tunnels'[i].org = tasks[t].org
    /\ tunnels'[i].deviceA = tasks[t].deviceA /\ tunnels'[i].deviceB = tasks[t].deviceB
    /\ IF side = "deviceAconf" THEN tunnels'[i].deviceAconf ELSE tunnels'[i].deviceBconf

NoErrorNoDelete ==
  /\ dels = << >>
  /\ \A u \in Tasks : tasks[u].jobA # "failed" /\ tasks[u].jobB # "failed"

\* C31: when both add jobs of a tunnel were accepted and the completion
\* callbacks of both have run, in either order, and no error callback and no
\* delete has occurred, the record of the tunnel is active with deviceAconf
\* and deviceBconf true
C31_BothCompletionsConfirm ==
  \A t \in Tasks :
    /\ tasks[t].jobA = "completed" /\ tasks[t].jobB = "completed"
    /\ NoErrorNoDelete
    => \E i \in OwnActive(t) : tunnels[i].deviceAconf /\ tunnels[i].deviceBconf

\* C32: the add job of device B of a tunnel is handed to the queue whether
\* or not the queue accepted the job of device A: an operation that ended on
\* the refusal of the job of device A has submitted the job of device B
C32_BothJobsSubmitted ==
  \A t \in Tasks :
    Refused(t) /\ tasks[t].jobA = "none" /\ tasks[t].tasksA # << >>
    => tasks[t].tasksB # << >>

\* the ipsec block of the add task of side k (1: device A, 2: device B)
IpsecOf(k) == derived.out[1][k][1].params.ipsec

\* the keys and algorithms of a security association
KeysOf(sa) == [sa EXCEPT !.spi = 0]

\* C33: in the add tasks of one tunnel the local-sa of side A has SPI sa1 and
\* its remote-sa SPI sa2, the local-sa of side B has SPI sa2 and its
\* remote-sa SPI sa1, the keys stay in place (the local-sa of B has the keys
\* of the local-sa of A, the remote-sa of B those of the remote-sa of A, and
\* the two pairs of keys differ), and every security association uses
\* aes-cbc-128 and sha-256-128
C33_SpiSwappedKeysKept ==
  JobsBuilt
  => LET p == generateTunnelParams(derived.n)
         a == IpsecOf(1)
         b == IpsecOf(2)
     IN /\ a.local_sa.spi = p.sa1 /\ a.remote_sa.spi = p.sa2
        /\ b.local_sa.spi = p.sa2 /\ b.remote_sa.spi = p.sa1
        /\ p.sa1 # p.sa2
        /\ KeysOf(b.local_sa) = KeysOf(a.local_sa)
        /\ KeysOf(b.remote_sa) = KeysOf(a.remote_sa)
        /\ a.local_sa.crypto_key # a.remote_sa.crypto_key
        /\ a.local_sa.integr_key # a.remote_sa.integr_key
        /\ \A sa \in {a.local_sa, a.remote_sa, b.local_sa, b.remote_sa} :
             sa.crypto_alg = "aes-cbc-128" /\ sa.integr_alg = "sha-256-128"

\* add tasks were built for a tunnel number whose two SPIs differ
C33_Witness ==
  /\ JobsBuilt /\ derived.n = 130
  /\ IpsecOf(1).local_sa.spi = 264 /\ IpsecOf(2).local_sa.spi = 265
  /\ IpsecOf(2).local_sa.crypto_key = "key1" /\ IpsecOf(2).remote_sa.crypto_key = "key3"

\* the job of this side of task t is removed in this step
RemoveStep(t, side) ==
  JobOf(tasks[t], side) = "queued" /\ JobOf(tasks'[t], side) = "removed"

\* C34: the removal of a queued job before it ran triggers no rollback: the
\* step changes no tunnel record (isActive, flags, number), frees no number,
\* leaves the counters alone and starts no deletion, and no deletion is ever
\* started on behalf of a removed job
C34_RemovalNoRollback ==
  /\ [](\A d \in Dels :
          dels[d].kind = "error"
          => JobOf(tasks[dels[d].task], dels[d].side) = "failed")
  /\ [][\A t \in Tasks, side \in Sides :
          RemoveStep(t, side)
          => tunnels' = tunnels /\ counter' = counter /\ dels' = dels]_vars

\* a job of a tunnel was removed and the record of the tunnel is still
\* active under its number, with no deletion started
C34_Witness ==
  \E t \in Tasks, side \in Sides :
    /\ JobOf(tasks[t], side) = "removed"
    /\ dels = << >>
    /\ \E i \in OwnActive(t) : tunnels[i].num = tasks[t].num

\* a deploy call has returned
Deployed == derived.op = "application" /\ derived.pc = "returned"

\* the places in deviceList of the jobs the queue rejected
RejectedJobs == { k \in DOMAIN derived.jobs : derived.jobs[k] = "rejected" }

\* C35: a deploy call that returned reports 'completed' with an empty
\* message exactly when every job was accepted, otherwise 'partially
\* completed' with the ids of exactly the accepted jobs and the message
\* "succeeded of total"; and every device whose job was rejected has an
\* entry of the application whose status is 'job queue failed'
C35_PartialSuccessReported ==
  Deployed
  => /\ derived.result.status = "completed" <=> RejectedJobs = {}
     /\ derived.result.status = "completed" => derived.result.message = << >>
     /\ derived.result.status # "completed"
        => /\ derived.result.status = "partially completed"
           /\ derived.result.message
                = << Len(derived.jobs) - Cardinality(RejectedJobs), Len(derived.jobs) >>
     /\ { derived.result.ids[k] : k \in DOMAIN derived.result.ids }
          = DOMAIN derived.jobs \ RejectedJobs
     /\ \A k \in RejectedJobs :
          derived.applications[derived.deviceList[k]] = "job queue failed"

\* the devices of a task or of a oneTunnelDel, without their order
PairOf(x) == {x.deviceA, x.deviceB}

\* the add jobs of task t were handed to the queue and accepted
Dispatched(t) == tasks[t].jobA # "none" /\ tasks[t].jobB # "none"

\* remove jobs with number n were dispatched to the devices in pair for
\* organization o
RemoveSent(o, n, pair) ==
  \E d \in Dels :
    /\ dels[d].org = o /\ dels[d].num = n /\ PairOf(dels[d]) = pair
    /\ dels[d].jobA # "none" /\ dels[d].jobB # "none"

\* C36: a tunnel number is never live on two device pairs of one
\* organization: when add jobs with one number were dispatched to two
\* different pairs, remove jobs with that number were dispatched to one of
\* the two pairs
C36_NumberOnOnePair ==
  \A t, u \in Tasks :
    /\ t # u /\ tasks[t].org = tasks[u].org /\ tasks[t].num = tasks[u].num
    /\ Dispatched(t) /\ Dispatched(u)
    /\ PairOf(tasks[t]) # PairOf(tasks[u])
    => \/ RemoveSent(tasks[t].org, tasks[t].num, PairOf(tasks[t]))
       \/ RemoveSent(tasks[u].org, tasks[u].num, PairOf(tasks[u]))

\* the confirmation flag of this side of record rec
FlagOf(rec, side) == IF side = "deviceAconf" THEN rec.deviceAconf ELSE rec.deviceBconf

\* the records that carry the number, devices and interfaces of the tunnel
\* of task t, active or not
OwnRecords(t) ==
  { i \in RecsOf(t) :
      /\ tunnels[i].deviceA = tasks[t].deviceA /\ tunnels[i].interfaceA = tasks[t].interfaceA
      /\ tunnels[i].deviceB = tasks[t].deviceB /\ tunnels[i].interfaceB = tasks[t].interfaceB }

\* C37: a confirmation flag of a tunnel record becomes true only in the
\* completion callback of the add job of that side of that same tunnel: the
\* job of an operation whose number, devices and interfaces the record
\* carries, and never a job of a deleted tunnel or of another tunnel between
\* the same two devices
C37_FlagOnlyByOwnJob ==
  [][ \A i \in Recs, side \in Sides :
        ~FlagOf(tunnels[i], side) /\ FlagOf(tunnels'[i], side)
        => \E t \in Tasks : CompleteStep(t, side) /\ i \in OwnRecords(t) ]_vars

\* C38: errorTunnelAdd rolls back only the tunnel whose add job failed: the
\* oneTunnelDel it starts is for a record that carries the number, devices
\* and interfaces of the tunnel of that job, never for another active tunnel
\* between the same two devices
C38_ErrorRollsBackOwn ==
  [][ \A t \in Tasks, side \in Sides :
        ErrorStep(t, side) /\ Len(dels') = Len(dels) + 1
        => dels'[Len(dels')].tunnelID \in OwnRecords(t) ]_vars

\* the step in which the find of task t is answered
FindStep(t) == tasks[t].pc = "find" /\ tasks'[t].pc # "find"

\* C39: a record that is only claimed for reuse, active with the device and
\* interface references of the deleted tunnel, is not an existing tunnel of
\* the old device pair: an operation is skipped only when a tunnel between
\* its devices exists that is not such a record, and an error callback
\* starts no oneTunnelDel for such a record
C39_ClaimedIsNoTunnel ==
  [][ /\ \A t \in Tasks :
           FindStep(t) /\ tasks'[t].pc = "skipped"
           => \E i \in TunnelFound(tasks[t].org, tasks[t].deviceA, tasks[t].deviceB) :
                ~Stale(i)
      /\ \A t \in Tasks, side \in Sides :
           ErrorStep(t, side) /\ Len(dels') = Len(dels) + 1
           => ~Stale(dels'[Len(dels')].tunnelID) ]_vars

\* an operation of organization o takes the step: one of its getTunnelPromise
\* or oneTunnelDel instances starts or moves on, or one of its calls starts
Acting(o) ==
  \/ \E t \in DOMAIN tasks' : tasks'[t].org = o /\ (t \in Tasks => tasks'[t] # tasks[t])
  \/ \E d \in DOMAIN dels' : dels'[d].org = o /\ (d \in Dels => dels'[d] # dels[d])
  \/ \E c \in DOMAIN calls' : calls'[c].org = o /\ c \notin DOMAIN calls

\* tunnel id tid is an active tunnel of organization o
ActiveIn(o, tid) == tid \in Recs /\ tunnels[tid].org = o /\ tunnels[tid].isActive

\* C40: organizations are isolated.  A step in which no operation of
\* organization o acts leaves the records and the counter of o as they are and
\* adds no record of o; an operation is skipped only for an active tunnel of
\* its own organization and claims only an inactive record of its own
\* organization; an error callback starts a rollback only for an active
\* tunnel of its own organization; and the deletion of a tunnel id that is
\* no active tunnel of the caller's organization fails, changes no record
\* and no counter and submits no job
C40_OrgsIsolated ==
  [][ /\ \A o \in Orgs :
           ~Acting(o)
           => /\ \A i \in Recs : tunnels[i].org = o => tunnels'[i] = tunnels[i]
              /\ \A i \in DOMAIN tunnels' \ Recs : tunnels'[i].org # o
              /\ counter'[o] = counter[o]
      /\ \A t \in Tasks :
           /\ FindStep(t) /\ tasks'[t].pc = "skipped"
              => ActiveBetween(tasks[t].org, tasks[t].deviceA, tasks[t].deviceB) # {}
           /\ ClaimStep(t) /\ tasks'[t].how = "claimed"
              => \E i \in InactiveRecs(tasks[t].org) :
                   tunnels[i].num = tasks'[t].num /\ tunnels'[i].isActive
      /\ \A t \in Tasks, side \in Sides :
           ErrorStep(t, side) /\ Len(dels') = Len(dels) + 1
           => ActiveIn(tasks[t].org, dels'[Len(dels')].tunnelID)
      /\ \A d \in Dels :
           /\ dels[d].pc = "find" /\ dels'[d].pc # "find"
              /\ ~ActiveIn(dels[d].org, dels[d].tunnelID)
              => /\ dels'[d].pc = "failed"
                 /\ dels'[d].jobA = "none" /\ dels'[d].jobB = "none"
                 /\ tunnels' = tunnels /\ counter' = counter
           /\ dels[d].pc = "failed" => dels'[d] = dels[d] ]_vars

\* organization o1 has created the tunnel between d1 and d2 with number 1 from
\* a counter of its own and one of its jobs has completed, and its deletion of
\* the tunnel of o2 with the same devices and number has failed; the records
\* and the counter of o2 are as they were
C40_Witness ==
  /\ \E t \in Tasks :
       /\ tasks[t].org = "o1" /\ tasks[t].pc = "resolved" /\ tasks[t].num = 1
       /\ tasks[t].deviceA = "d1" /\ tasks[t].deviceB = "d2"
       /\ tasks[t].jobB = "completed"
       /\ \E i \in OwnActive(t) : tunnels[i].deviceBconf
  /\ \E d \in Dels : dels[d].org = "o1" /\ dels[d].tunnelID = 1 /\ dels[d].pc = "failed"
  /\ tunnels[1] = IsoStore.tunnels[1] /\ tunnels[2] = IsoStore.tunnels[2]
  /\ counter = [o \in Orgs |-> IF o = "o1" THEN 1 ELSE 2]

====
